---- MODULE Spec2Model ----
(***************************************************************************)
(* A model of the follower scraper (scraper.py): the pagination loop of    *)
(* scrape_followers, the caption sub-collector get_recent_captions, the    *)
(* field locators, get_profile_info and the batch loop of                  *)
(* collect_followers_data.  The browser is the environment: every DOM call *)
(* either answers or raises, and the answer is drawn from a small set.     *)
(***************************************************************************)
EXTENDS Integers, Sequences, FiniteSets, TLC

\* Python's None: the "absent" value of every field and handle.
None == "None"

Min(a, b) == IF a <= b THEN a ELSE b
Max(a, b) == IF a >= b THEN a ELSE b

(***************************************************************************)
(* Bounds of the model.                                                    *)
(***************************************************************************)
\* largest follower limit the operator asks for
MaxLimit == 2
\* most links one find_elements call returns in the dialog
MaxPassLen == 2
\* scroll offsets read from the container are 0..MaxOffset
MaxOffset == 1
\* most loop iterations of scrape_followers that are explored
MaxIter == 5
\* most candidate regions scanned for the scrollable container
MaxCands == 2
\* largest max_posts asked of get_recent_captions
MaxPosts == 2
\* most anchors in the post grid of a profile
MaxAnchors == 3
\* most elements a find_elements call of a field locator returns
MaxElems == 1
\* most identifiers handed to collect_followers_data
MaxProfiles == 2

(***************************************************************************)
(* Program constants.                                                      *)
(***************************************************************************)
\* SCRAPING_CONFIG['no_change_max'] (config.py): the stagnation bound
no_change_max == 3
\* scrape_followers: max_consecutive_errors = 3
max_consecutive_errors == 3
\* scrape_followers: scroll_height > client_height + 100
ScrollMargin == 100
\* get_recent_captions: if len(caption) > 800
CaptionMaxLen == 800

VARIABLES
    \* ---- scrape_followers -------------------------------------------------
    pc,                     \* position in scrape_followers
    limit,                  \* the limit argument
    followers,              \* the working set
    modal,                  \* the container handle: how it was located
    queried_at,             \* scroll commands issued before modal was located
    since_change,           \* iterations begun since the offset last changed
    last_scroll_position,
    no_change_count,
    consecutive_errors,
    result,                 \* the returned set, once pc = "done"
    exit,                   \* why the call returned, "none" before it does
    dialog,                 \* the followers link has been clicked
    feed,                   \* a scripted dialog (one link list per pass); <<>>: unscripted
    \* history of the run, read by the properties only
    passes,                 \* completed find_elements calls of the loop
    scrolls,                \* scroll-to-bottom commands issued (line 352)
    extra_scrolls,          \* additional +1000 scrolls attempted (line 375)
    reads,                  \* completed reads of the scroll offset
    offsets,                \* the set of offsets read so far
    faulted,                \* an exception reached the loop body (not a skipped link)
    seen                    \* identifiers parsed in completed passes

scrapeVars == <<pc, limit, followers, modal, queried_at, since_change,
                last_scroll_position,
                no_change_count,
                consecutive_errors, result, exit, dialog, feed, passes, scrolls,
                extra_scrolls, reads, offsets, faulted, seen>>

VARIABLES
    \* ---- get_recent_captions ---------------------------------------------
    cpc,                    \* position in get_recent_captions
    max_posts,              \* the max_posts argument
    anchors,                \* the anchors of the post grid, in display order
    post_links,             \* how many post anchors were collected
    grid_failed,            \* collecting the post anchors raised
    post_index,             \* the post being processed, 1..post_links
    captions,               \* the list being built and returned
    overlays,               \* post overlays open in the browser
    last_el                 \* what the structured caption element answered for this post

capVars == <<cpc, max_posts, anchors, post_links, grid_failed, post_index, captions,
             overlays, last_el>>

VARIABLES
    \* ---- get_profile_info ------------------------------------------------
    ppc,                    \* position in get_profile_info
    username,               \* the username argument
    posts_to_extract,       \* the posts_to_extract argument
    follower_count,
    following_count,
    full_name,
    bio_text,
    info,                   \* the returned record, once ppc = "done"
    failure,                \* the exception that reached the handler, "none" if none
    escaped,                \* locators that let an exception out
    dom_raised,             \* the locators whose first DOM call raised
    tried                   \* the count strategies invoked, in order, with what each returned

profVars == <<ppc, username, posts_to_extract, follower_count, following_count,
              full_name, bio_text, info, failure, escaped, dom_raised, tried>>

VARIABLES
    \* ---- collect_followers_data ------------------------------------------
    bpc,                    \* position in collect_followers_data
    max_profiles,           \* the max_profiles argument, NoCap for None
    usernames_set,          \* the usernames_set argument
    usernames_list,
    index,                  \* enumerate's index of the username being processed
    followers_data,
    called,                 \* the usernames get_profile_info was called with, in order
    failed_calls,           \* the positions whose call ended in an exception handler
    successful,             \* the summary: records with a followers number
    failed                  \* the summary: total - successful

batchVars == <<bpc, max_profiles, usernames_set, usernames_list, index, followers_data,
               called, failed_calls, successful, failed>>

VARIABLES
    \* ---- main -------------------------------------------------------------
    mpc,                    \* position in main
    main_limit,             \* the limit the operator entered
    entered,                \* the caption count the operator entered
    main_posts,             \* posts_to_extract after line 52
    main_followers,         \* what scrape_followers returned
    txt_file,               \* the follower list save_followers_txt wrote
    json_file,              \* the records save_followers_data_json wrote
    analysed,               \* analizar_benford has been called
    quits,                  \* calls of driver.quit
    main_exc,               \* the exception that reached a handler of main
    collected               \* the records collect_followers_data held when it was left

mainVars == <<mpc, main_limit, entered, main_posts, main_followers, txt_file, json_file,
              analysed, quits, main_exc, collected>>

VARIABLES
    \* ---- analyze_bio.main and analizar_benford ----------------------------
    apc,                    \* position in the two analyses
    doc,                    \* the JSON document read from the file
    records_input,          \* analyze_bio.main: the records it iterates
    frame,                  \* cargar_json_instagram: the DataFrame
    results,                \* analyze_bio.main: one label per classified record
    clean                   \* analizar_benford: the rows of df_clean

analysisVars == <<apc, doc, records_input, frame, results, clean>>

vars == <<scrapeVars, capVars, profVars, batchVars, mainVars, analysisVars>>

\* what each function leaves alone: the state of the others
outsideScrape == <<capVars, profVars, batchVars, mainVars, analysisVars>>
outsideCaptions == <<scrapeVars, profVars, batchVars, mainVars, analysisVars>>
outsideProfile == <<scrapeVars, batchVars, mainVars, analysisVars>>
outsideBatch == <<scrapeVars, capVars, mainVars, analysisVars>>

(***************************************************************************)
(* The state of a function that is not running.                            *)
(***************************************************************************)
\* last_el when no structured caption element was queried for the post
NotQueried == [state |-> "none", text |-> <<>>]

ScrapeIdle ==
    /\ pc = "idle"
    /\ limit = 1
    /\ followers = {}
    /\ modal = [how |-> "none"]
    /\ queried_at = 0
    /\ since_change = 0
    /\ last_scroll_position = 0
    /\ no_change_count = 0
    /\ consecutive_errors = 0
    /\ result = {}
    /\ exit = "none"
    /\ dialog = FALSE
    /\ feed = <<>>
    /\ passes = 0
    /\ scrolls = 0
    /\ extra_scrolls = 0
    /\ reads = 0
    /\ offsets = {}
    /\ faulted = FALSE
    /\ seen = {}

\* the record get_profile_info returns
Record(u, nm, fc, gc, bio, caps) ==
    [username |-> u, name |-> nm, followers |-> fc, following |-> gc,
     bio |-> bio, recent_captions |-> caps]

NoText == [absent |-> TRUE, text |-> <<>>]
NoCount == [absent |-> TRUE, num |-> 0]

\* lines 599-606 and 609-616: the record of a failed profile
FailureRecord(u) == Record(u, NoText, NoCount, NoCount, NoText, <<>>)

ProfLocals ==
    /\ follower_count = NoCount
    /\ following_count = NoCount
    /\ full_name = NoText
    /\ bio_text = NoText
    /\ failure = "none"
    /\ escaped = {}
    /\ dom_raised = {}
    /\ tried = <<>>

ProfIdle ==
    /\ ppc = "idle"
    /\ username = ""
    /\ posts_to_extract = 0
    /\ info = FailureRecord("")
    /\ ProfLocals

\* max_profiles = None
NoCap == -1

BatchIdle ==
    /\ bpc = "idle"
    /\ max_profiles = NoCap
    /\ usernames_set = {}
    /\ usernames_list = <<>>
    /\ index = 0
    /\ followers_data = <<>>
    /\ called = <<>>
    /\ failed_calls = {}
    /\ successful = 0
    /\ failed = 0

\* nothing written yet
NoTxt == [saved |-> FALSE, content |-> {}]
NoJson == [saved |-> FALSE, data |-> <<>>]

MainIdle ==
    /\ mpc = "idle"
    /\ main_limit = 1
    /\ entered = 0
    /\ main_posts = 0
    /\ main_followers = {}
    /\ txt_file = NoTxt
    /\ json_file = NoJson
    /\ analysed = FALSE
    /\ quits = 0
    /\ main_exc = "none"
    /\ collected = <<>>

\* json.load of a bare list, and of an object with one key holding a list
JsonList(L) == [kind |-> "list", key |-> "", items |-> L]
JsonObject(k, L) == [kind |-> "dict", key |-> k, items |-> L]

\* pd.DataFrame(rows), and pd.DataFrame([data]) of the whole document
Frame(rows) == [whole |-> FALSE, rows |-> rows]
WholeFrame == [whole |-> TRUE, rows |-> <<>>]

AnalysisIdle ==
    /\ apc = "idle"
    /\ doc = JsonList(<<>>)
    /\ records_input = <<>>
    /\ frame = Frame(<<>>)
    /\ results = <<>>
    /\ clean = <<>>

CapLocals ==
    /\ anchors = <<>>
    /\ post_links = 0
    /\ grid_failed = FALSE
    /\ post_index = 0
    /\ captions = <<>>
    /\ overlays = 0
    /\ last_el = NotQueried

CapIdle ==
    /\ cpc = "idle"
    /\ max_posts = 0
    /\ CapLocals

(***************************************************************************)
(* Identifiers, hrefs and link elements of the follower dialog.            *)
(***************************************************************************)
Ids == {"a", "b", "c", "d", "e"}
\* the identifiers the unscripted dialog shows
FewIds == {"a", "b", "c"}

\* get_attribute("href") answering None
NoHref == [kind |-> "none", user |-> ""]
ProfileHref(u) == [kind |-> "profile", user |-> u]
ChromeHref == [kind |-> "chrome", user |-> "explore"]
Hrefs(ids) == {ProfileHref(u) : u \in ids} \cup {ChromeHref}

\* utils.extract_username_from_url: the identifier of a profile link, None for
\* any other path (navigation chrome, static assets)
extract_username_from_url(href) ==
    IF href.kind = "profile" THEN href.user ELSE None

\* a link element: get_attribute("href") raises (stale) or answers href / None
LinkElems(ids) ==
    [stale : {TRUE}, href : {NoHref}]
        \cup [stale : {FALSE}, href : Hrefs(ids) \cup {NoHref}]

Link(u) == [stale |-> FALSE, href |-> ProfileHref(u)]

RECURSIVE SeqsUpTo(_, _)
SeqsUpTo(S, n) ==
    IF n = 0 THEN {<<>>}
    ELSE LET shorter == SeqsUpTo(S, n - 1)
         IN  shorter \cup {Append(s, x) : s \in {t \in shorter : Len(t) = n - 1}, x \in S}

\* a variant of AddLinks that derives the set again from the links of the pass
AddLinksAfresh(set, links) ==
    {links[i].href.user : i \in {j \in DOMAIN links :
                                    ~ links[j].stale /\ links[j].href.kind = "profile"}}
\* a variant of AddLinks that a stale link ends
RECURSIVE AddLinksUntilStale(_, _)
AddLinksUntilStale(set, links) ==
    IF links = <<>> \/ Head(links).stale THEN set
    ELSE LET uname == IF Head(links).href = NoHref THEN None
                      ELSE extract_username_from_url(Head(links).href)
         IN  AddLinksUntilStale(IF uname # None /\ uname \notin set
                                THEN set \cup {uname} ELSE set,
                                Tail(links))
\* lines 325-335: one extraction pass over the links, inserting what is new
RECURSIVE AddLinks(_, _)
AddLinks(set, links) ==
    IF links = <<>> THEN set
    ELSE LET a == Head(links)
             uname == IF a.stale \/ a.href = NoHref THEN None
                      ELSE extract_username_from_url(a.href)
         IN  AddLinks(IF uname # None /\ uname \notin set
                      THEN set \cup {uname} ELSE set,
                      Tail(links))

\* a variant of LimitReached that misses the limit by one
LimitReachedStrict(count, lim) == count > lim
\* line 340: if current_count >= limit
LimitReached(count, lim) == count >= lim

\* line 320: while len(followers) < limit
LoopGuard(count, lim) == count < lim

\* a variant of StagnationReached that stops one stagnant read later
StagnationReachedLate(count) == count > no_change_max
\* line 370: if no_change_count >= SCRAPING_CONFIG['no_change_max']
StagnationReached(count) == count >= no_change_max

\* a variant of TooManyErrors that never gives up
NeverTooManyErrors(n) == FALSE
\* line 388: if consecutive_errors >= max_consecutive_errors
TooManyErrors(count) == count >= max_consecutive_errors

\* line 302: scroll_height > client_height + 100
IsScrollable(c) == c.sh > c.ch + ScrollMargin

\* modal = None
NoHandle == [how |-> "none"]

\* lines 298-306: the first candidate measured scrollable; a candidate whose
\* measurement raises is skipped
RECURSIVE FirstScrollable(_)
FirstScrollable(cands) ==
    IF cands = <<>> THEN NoHandle
    ELSE IF ~Head(cands).err /\ IsScrollable(Head(cands))
         THEN [how |-> "measured"]
         ELSE FirstScrollable(Tail(cands))

Candidates == [sh : {250, 300, 301}, ch : {200}, err : BOOLEAN]
Structural == [how |-> "structural"]

(***************************************************************************)
(* scrape_followers                                                        *)
(***************************************************************************)
\* lines 352, 375: the scroll commands issued so far
ScrollCommands == scrolls + extra_scrolls

Return(set, why) ==
    /\ pc' = "done"
    /\ result' = set
    /\ exit' = why

\* a variant of EarlyReturn that goes on to the loop
NoEarlyReturn(why) ==
    /\ pc' = "loop"
    /\ exit' = why
    /\ UNCHANGED result
\* lines 281, 292 and 312: return set()
EarlyReturn(why) == Return({}, why)

InitLoopState ==
    /\ pc = "navigate"
    /\ followers = {}
    /\ modal = NoHandle
    /\ queried_at = 0
    /\ since_change = 0
    /\ last_scroll_position = 0
    /\ no_change_count = 0
    /\ consecutive_errors = 0
    /\ result = {}
    /\ exit = "none"
    /\ dialog = FALSE
    /\ passes = 0
    /\ scrolls = 0
    /\ extra_scrolls = 0
    /\ reads = 0
    /\ offsets = {}
    /\ faulted = FALSE
    /\ seen = {}

InitScrape ==
    /\ limit \in 1..MaxLimit
    /\ feed = <<>>
    /\ InitLoopState
    /\ CapIdle
    /\ ProfIdle
    /\ BatchIdle
    /\ MainIdle
    /\ AnalysisIdle

\* lines 270-281: load the profile and wait for its header
Navigate ==
    /\ pc = "navigate"
    /\ UNCHANGED outsideScrape
    /\ \E header \in BOOLEAN :
         IF header THEN pc' = "open" /\ UNCHANGED <<result, exit>>
         ELSE EarlyReturn("profile unreachable")
    /\ UNCHANGED <<limit, dialog, followers, modal, queried_at, since_change, last_scroll_position, no_change_count,
                   consecutive_errors, feed, passes, scrolls, extra_scrolls, reads,
                   offsets, faulted, seen>>

\* lines 284-292: click the followers link
OpenModal ==
    /\ pc = "open"
    /\ UNCHANGED outsideScrape
    /\ \E clicked \in BOOLEAN :
         IF clicked THEN pc' = "find" /\ dialog' = TRUE /\ UNCHANGED <<result, exit>>
         ELSE EarlyReturn("no dialog") /\ UNCHANGED dialog
    /\ UNCHANGED <<limit, followers, modal, queried_at, since_change, last_scroll_position, no_change_count,
                   consecutive_errors, feed, passes, scrolls, extra_scrolls, reads,
                   offsets, faulted, seen>>

\* lines 295-312: scan the candidate regions for the scrollable one
FindContainer ==
    /\ pc = "find"
    /\ UNCHANGED outsideScrape
    /\ \E queried \in BOOLEAN, cands \in SeqsUpTo(Candidates, MaxCands) :
         LET found == IF queried THEN FirstScrollable(cands) ELSE NoHandle
         IN  IF found = NoHandle
             THEN EarlyReturn("no container") /\ UNCHANGED <<modal, queried_at>>
             ELSE /\ modal' = found
                  /\ queried_at' = ScrollCommands
                  /\ pc' = "loop"
                  /\ UNCHANGED <<result, exit>>
    /\ UNCHANGED <<limit, dialog, followers, since_change, last_scroll_position,
                   no_change_count, consecutive_errors, feed, passes, scrolls,
                   extra_scrolls, reads, offsets, faulted, seen>>

\* line 320: the loop test; lines 403-404 when it fails; at most cap passes
\* are followed
LoopTestWithin(cap) ==
    /\ pc = "loop"
    /\ UNCHANGED outsideScrape
    /\ IF LoopGuard(Cardinality(followers), limit)
       THEN /\ passes < cap
            /\ pc' = "extract"
            /\ since_change' = since_change + 1
            /\ UNCHANGED <<result, exit>>
       ELSE Return(followers, "limit") /\ UNCHANGED since_change
    /\ UNCHANGED <<limit, dialog, followers, modal, queried_at, last_scroll_position, no_change_count,
                   consecutive_errors, feed, passes, scrolls, extra_scrolls, reads,
                   offsets, faulted, seen>>

LoopTest == LoopTestWithin(MaxIter)

\* lines 323-342: query the links afresh, insert the new identifiers, test the limit
ExtractPass(links) ==
    /\ pc = "extract"
    /\ UNCHANGED outsideScrape
    /\ LET after == AddLinks(followers, links)
       IN  /\ followers' = after
           /\ seen' = seen \cup AddLinks({}, links)
           /\ passes' = passes + 1
           /\ UNCHANGED faulted
           /\ IF LimitReached(Cardinality(after), limit)
              THEN Return(after, "limit")
              ELSE pc' = "scroll" /\ UNCHANGED <<result, exit>>
    /\ UNCHANGED <<limit, dialog, modal, queried_at, since_change, last_scroll_position, no_change_count,
                   consecutive_errors, feed, scrolls, extra_scrolls, reads, offsets>>

\* line 323 raising: find_elements fails, control goes to the handler
ExtractFails ==
    /\ pc = "extract"
    /\ UNCHANGED outsideScrape
    /\ pc' = "handler"
    /\ faulted' = TRUE
    /\ UNCHANGED <<limit, dialog, followers, modal, queried_at, since_change, last_scroll_position, no_change_count,
                   consecutive_errors, result, exit, feed, passes, scrolls, extra_scrolls,
                   reads, offsets, seen>>

\* lines 344-353: re-locate the container (keeping the old handle when that
\* fails), command the scroll to the bottom, sleep
ScrollStep ==
    /\ pc = "scroll"
    /\ UNCHANGED outsideScrape
    /\ \E relocated \in BOOLEAN, scrolled \in BOOLEAN :
         /\ modal' = IF relocated THEN Structural ELSE modal
         /\ queried_at' = IF relocated THEN ScrollCommands ELSE queried_at
         /\ IF scrolled
            THEN pc' = "read" /\ scrolls' = scrolls + 1 /\ UNCHANGED faulted
            ELSE pc' = "handler" /\ faulted' = TRUE /\ UNCHANGED scrolls
    /\ UNCHANGED <<limit, dialog, followers, since_change, last_scroll_position,
                   no_change_count, consecutive_errors, result, exit, feed, passes,
                   extra_scrolls, reads, offsets, seen>>

\* lines 355-382: read the offset (re-locating the container once when the read
\* fails), then count stagnation or reset the counters
ReadAndCompare ==
    /\ pc = "read"
    /\ UNCHANGED outsideScrape
    /\ \E outcome \in {"read", "reread", "lost"}, new_scroll_position \in 0..MaxOffset :
         IF outcome = "lost"
         THEN /\ Return(followers, "offset unreadable")
              /\ faulted' = TRUE
              /\ UNCHANGED <<modal, queried_at, since_change, last_scroll_position, no_change_count,
                             consecutive_errors, extra_scrolls, reads, offsets>>
         ELSE /\ modal' = IF outcome = "reread" THEN Structural ELSE modal
              /\ queried_at' = IF outcome = "reread" THEN ScrollCommands ELSE queried_at
              /\ faulted' = (faulted \/ outcome = "reread")
              /\ reads' = reads + 1
              /\ offsets' = offsets \cup {new_scroll_position}
              /\ IF new_scroll_position = last_scroll_position
                 THEN /\ no_change_count' = no_change_count + 1
                      /\ UNCHANGED <<consecutive_errors, last_scroll_position, since_change>>
                      /\ IF StagnationReached(no_change_count + 1)
                         THEN Return(followers, "exhausted") /\ UNCHANGED extra_scrolls
                         ELSE /\ pc' = "loop"
                              /\ extra_scrolls' = extra_scrolls + 1
                              /\ UNCHANGED <<result, exit>>
                 ELSE /\ no_change_count' = 0
                      /\ consecutive_errors' = 0
                      /\ since_change' = 0
                      /\ last_scroll_position' = new_scroll_position
                      /\ pc' = "loop"
                      /\ UNCHANGED <<result, exit, extra_scrolls>>
    /\ UNCHANGED <<limit, dialog, followers, feed, passes, scrolls, seen>>

\* lines 384-401: the handler of the loop body
ErrorHandler ==
    /\ pc = "handler"
    /\ UNCHANGED outsideScrape
    /\ consecutive_errors' = consecutive_errors + 1
    /\ \E recovered \in BOOLEAN :
         IF TooManyErrors(consecutive_errors + 1)
         THEN Return(followers, "too many errors") /\ UNCHANGED <<modal, queried_at>>
         ELSE IF ~recovered
         THEN Return(followers, "container lost") /\ UNCHANGED <<modal, queried_at>>
         ELSE /\ modal' = Structural
              /\ queried_at' = ScrollCommands
              /\ pc' = "loop"
              /\ UNCHANGED <<result, exit>>
    /\ UNCHANGED <<limit, dialog, followers, since_change, last_scroll_position,
                   no_change_count, feed, passes, scrolls, extra_scrolls, reads, offsets,
                   faulted, seen>>

ScrapeSteps ==
    \/ Navigate
    \/ OpenModal
    \/ FindContainer
    \/ LoopTest
    \/ ExtractFails
    \/ ScrollStep
    \/ ReadAndCompare
    \/ ErrorHandler

\* the unscripted dialog: any links in any pass
FreePass == \E links \in SeqsUpTo(LinkElems(FewIds), MaxPassLen) : ExtractPass(links)

NextScrape == ScrapeSteps \/ FreePass

SpecScrape == InitScrape /\ [][NextScrape]_vars

(***************************************************************************)
(* scrape_followers on a dialog whose offset only grows, so that it        *)
(* changes at most MaxOffset times; the program keeps running.             *)
(***************************************************************************)
\* the iterations that can run without a change of the offset: neither
\* counter is reset by anything else (lines 368, 380-381, 385)
MaxBetweenChanges == no_change_max + max_consecutive_errors - 1

\* the passes a call can make on such a dialog
TermCap == (MaxOffset + 1) * MaxBetweenChanges

\* lines 355-382, the offset read being no smaller than the last one
MonotoneRead == ReadAndCompare /\ last_scroll_position' >= last_scroll_position

\* lines 323-342 on a dialog that shows at most one profile link per pass
ShortPass == \E links \in SeqsUpTo({Link(u) : u \in FewIds}, 1) : ExtractPass(links)

NextTerm ==
    \/ Navigate
    \/ OpenModal
    \/ FindContainer
    \/ LoopTestWithin(TermCap)
    \/ ExtractFails
    \/ ScrollStep
    \/ MonotoneRead
    \/ ErrorHandler
    \/ ShortPass

SpecTerm == InitScrape /\ [][NextTerm]_vars /\ WF_vars(NextTerm)

(***************************************************************************)
(* The scripted dialog of the scenario: the references a,b,a,c,d,e,e over  *)
(* two passes, split anywhere that leaves the first pass short of 5        *)
(* identifiers; the second pass shows the rest, or the whole list again.   *)
(***************************************************************************)
ScenarioRefs == <<Link("a"), Link("b"), Link("a"), Link("c"), Link("d"), Link("e"), Link("e")>>

ScenarioFeeds ==
    {<<SubSeq(ScenarioRefs, 1, k),
       IF cumulative THEN ScenarioRefs ELSE SubSeq(ScenarioRefs, k + 1, Len(ScenarioRefs))>> :
        k \in 1..5, cumulative \in BOOLEAN}

InitScenario ==
    /\ limit = 5
    /\ feed \in ScenarioFeeds
    /\ InitLoopState
    /\ CapIdle
    /\ ProfIdle
    /\ BatchIdle
    /\ MainIdle
    /\ AnalysisIdle

\* the scripted dialog: pass n shows feed[n], the last list again once the script ends
ScriptedPass == ExtractPass(feed[Min(passes + 1, Len(feed))])

NextScenario == ScrapeSteps \/ ScriptedPass

SpecScenario == InitScenario /\ [][NextScenario]_vars

(***************************************************************************)
(* A dialog that answers every query with the same links, some of them     *)
(* stale.                                                                  *)
(***************************************************************************)
StaleFeeds == {<<links>> : links \in SeqsUpTo(LinkElems(FewIds), MaxPassLen)}

InitStale ==
    /\ limit \in 1..MaxLimit
    /\ feed \in StaleFeeds
    /\ InitLoopState
    /\ CapIdle
    /\ ProfIdle
    /\ BatchIdle
    /\ MainIdle
    /\ AnalysisIdle

SpecStale == InitStale /\ [][NextScenario]_vars

(***************************************************************************)
(* Text.  A string is a sequence of runs [c, n]: n copies of character c,  *)
(* no two adjacent runs of the same character.  The characters are " ",    *)
(* "\n", the separator "*" (the bullet of og:description), "." and three   *)
(* letters that tell where a text came from: "e" (caption element), "m"    *)
(* (og:description), "a" (alt text).                                       *)
(***************************************************************************)
Run(c, n) == [c |-> c, n |-> n]
IsSpace(c) == c \in {" ", "\n"}

RECURSIVE TextLen(_)
TextLen(t) == IF t = <<>> THEN 0 ELSE Head(t).n + TextLen(Tail(t))

\* the canonical form: empty runs dropped, adjacent runs of a character merged
RECURSIVE Canon(_)
Canon(t) ==
    IF t = <<>> THEN <<>>
    ELSE IF Head(t).n = 0 THEN Canon(Tail(t))
    ELSE LET rest == Canon(Tail(t))
         IN  IF rest # <<>> /\ rest[1].c = Head(t).c
             THEN <<Run(Head(t).c, Head(t).n + rest[1].n)>> \o Tail(rest)
             ELSE <<Head(t)>> \o rest

RECURSIVE LStrip(_)
LStrip(t) == IF t # <<>> /\ IsSpace(Head(t).c) THEN LStrip(Tail(t)) ELSE t

RECURSIVE RStrip(_)
RStrip(t) ==
    IF t # <<>> /\ IsSpace(t[Len(t)].c) THEN RStrip(SubSeq(t, 1, Len(t) - 1)) ELSE t

\* str.strip()
Strip(t) == RStrip(LStrip(t))

\* " ".join(s.splitlines()): every line break becomes a space, but the last
\* one of a text that ends with a line break, which splitlines drops
JoinLines(t) ==
    Canon([i \in 1..Len(t) |->
             IF t[i].c = "\n"
             THEN Run(" ", IF i = Len(t) THEN t[i].n - 1 ELSE t[i].n)
             ELSE t[i]])

\* s[:k]
RECURSIVE Take(_, _)
Take(t, k) ==
    IF k = 0 \/ t = <<>> THEN <<>>
    ELSE IF Head(t).n <= k THEN <<Head(t)>> \o Take(Tail(t), k - Head(t).n)
    ELSE <<Run(Head(t).c, k)>>

\* s.split(sep)[0]
RECURSIVE BeforeSep(_)
BeforeSep(t) ==
    IF t = <<>> \/ Head(t).c = "*" THEN <<>> ELSE <<Head(t)>> \o BeforeSep(Tail(t))

\* a variant of NormalizeCaption that keeps the text as it is
KeepCaption(t) == t
\* lines 521-523: collapse the line breaks, strip, cut at 800 characters
NormalizeCaption(t) ==
    LET joined == Strip(JoinLines(t))
    IN  IF TextLen(joined) > CaptionMaxLen
        THEN Canon(Take(joined, CaptionMaxLen) \o <<Run(".", 3)>>)
        ELSE joined

\* sample texts written with the letter c
Samples(c) ==
    { <<>>,
      <<Run(" ", 1)>>,
      <<Run(c, 1)>>,
      <<Run(" ", 1), Run(c, 1), Run("\n", 1)>>,
      <<Run(c, 1), Run("\n", 2), Run(c, 1)>>,
      <<Run(c, CaptionMaxLen)>>,
      <<Run(c, CaptionMaxLen + 1)>>,
      <<Run(c, CaptionMaxLen - 1), Run("\n", 1), Run(c, 2)>> }

(***************************************************************************)
(* Field values: a caption (or any field) is a text or absent (None).      *)
(***************************************************************************)
Absent == NoText
Value(t) == [absent |-> FALSE, text |-> t]

\* Python's truth of a caption: neither None nor ""
Truthy(v) == ~v.absent /\ v.text # <<>>

(***************************************************************************)
(* What the DOM of an open post overlay answers.                           *)
(***************************************************************************)
\* the structured caption element: missing, found with .text raising, or found with a text
ElementAnswers ==
    {[state |-> "missing", text |-> <<>>], [state |-> "unreadable", text |-> <<>>]}
        \cup {[state |-> "text", text |-> t] : t \in Samples("e")}

\* meta og:description: missing, content None, or a content
MetaAnswers ==
    {[state |-> "missing", text |-> <<>>], [state |-> "null", text |-> <<>>]}
        \cup {[state |-> "text", text |-> t] :
                t \in { <<Run("m", 1)>>,
                        <<Run(" ", 1)>>,
                        <<Run("m", 2), Run(" ", 1), Run("*", 1), Run(" ", 1), Run("m", 1)>>,
                        <<Run("*", 1), Run("m", 1)>> }}

\* the overlay's first img: missing, alt None, or an alt text
AltAnswers ==
    {[state |-> "missing", text |-> <<>>], [state |-> "null", text |-> <<>>]}
        \cup {[state |-> "text", text |-> t] :
                t \in { <<>>, <<Run(" ", 1)>>, <<Run(" ", 1), Run("a", 1)>> }}

\* lines 494-498: method 1, the caption element's stripped text
Method1(el) == IF el.state = "text" THEN Value(Strip(el.text)) ELSE Absent

\* lines 501-508: method 2, og:description up to the bullet, stripped
Method2(caption, meta) ==
    IF Truthy(caption) THEN caption
    ELSE IF meta.state = "text" /\ meta.text # <<>>
         THEN Value(Strip(BeforeSep(meta.text)))
         ELSE caption

\* lines 511-518: method 3, the img's alt text, stripped
Method3(caption, alt) ==
    IF Truthy(caption) THEN caption
    ELSE IF alt.state = "text" /\ alt.text # <<>>
         THEN Value(Strip(alt.text))
         ELSE caption

\* a variant of FoundCaption that asks the metadata first
FoundCaptionMetaFirst(el, meta, alt) ==
    Method3(IF Truthy(Method2(Absent, meta)) THEN Method2(Absent, meta) ELSE Method1(el), alt)
\* lines 492-518: the three methods in order
FoundCaption(el, meta, alt) == Method3(Method2(Method1(el), meta), alt)

\* lines 520-526: the entry appended for the post
CaptionEntry(caption) ==
    IF Truthy(caption) THEN Value(NormalizeCaption(caption.text)) ELSE Absent

\* a variant of EnoughPosts that collects one post too many
EnoughPostsLate(n, max) == n > max
\* line 481: if len(post_links) >= max_posts
EnoughPosts(n, max) == n >= max

\* lines 477-482: walk the anchors; an anchor answers a post href, no href, or raises
RECURSIVE CollectPosts(_, _, _)
CollectPosts(as, n, max) ==
    IF as = <<>> THEN [failed |-> FALSE, n |-> n]
    ELSE IF Head(as) = "stale" THEN [failed |-> TRUE, n |-> 0]
    ELSE LET n2 == IF Head(as) = "post" THEN n + 1 ELSE n
         IN  IF EnoughPosts(n2, max) THEN [failed |-> FALSE, n |-> n2]
             ELSE CollectPosts(Tail(as), n2, max)

AnchorKinds == {"post", "nohref", "stale"}

RECURSIVE CountPosts(_)
CountPosts(as) ==
    IF as = <<>> THEN 0
    ELSE (IF Head(as) = "post" THEN 1 ELSE 0) + CountPosts(Tail(as))

(***************************************************************************)
(* get_recent_captions                                                     *)
(***************************************************************************)
InitCaptions ==
    /\ cpc = "collect"
    /\ max_posts \in 0..MaxPosts
    /\ CapLocals
    /\ ScrapeIdle
    /\ ProfIdle
    /\ BatchIdle
    /\ MainIdle
    /\ AnalysisIdle

\* lines 546: return captions
CapReturn == cpc' = "done"

\* lines 474-482: collect the post anchors of the grid (line 543 when that raises)
CollectPostLinks(grids) ==
    /\ cpc = "collect"
    /\ UNCHANGED outsideCaptions
    /\ \E queried \in BOOLEAN, as \in grids :
         LET got == IF queried THEN CollectPosts(as, 0, max_posts)
                    ELSE [failed |-> TRUE, n |-> 0]
         IN  /\ anchors' = IF queried THEN as ELSE <<>>
             /\ grid_failed' = got.failed
             /\ post_links' = got.n
             /\ IF got.n = 0
                THEN CapReturn /\ UNCHANGED post_index
                ELSE cpc' = "open" /\ post_index' = 1
    /\ UNCHANGED <<max_posts, captions, overlays, last_el>>

\* lines 485-490 and 528-529: click the post and wait for its dialog; when
\* either raises the entry is None
OpenPost ==
    /\ cpc = "open"
    /\ UNCHANGED outsideCaptions
    /\ \E clicked \in BOOLEAN, appeared \in BOOLEAN :
         /\ overlays' = IF clicked THEN overlays + 1 ELSE overlays
         /\ IF clicked /\ appeared
            THEN cpc' = "extract" /\ UNCHANGED captions
            ELSE cpc' = "close" /\ captions' = Append(captions, Absent)
    /\ last_el' = NotQueried
    /\ UNCHANGED <<max_posts, anchors, post_links, grid_failed, post_index>>

\* lines 492-526: the three caption methods, then the entry
ExtractCaption(els, metas, alts) ==
    /\ cpc = "extract"
    /\ UNCHANGED outsideCaptions
    /\ \E el \in els, meta \in metas, alt \in alts :
         /\ captions' = Append(captions, CaptionEntry(FoundCaption(el, meta, alt)))
         /\ last_el' = el
    /\ cpc' = "close"
    /\ UNCHANGED <<max_posts, anchors, post_links, grid_failed, post_index, overlays>>

\* lines 530-542: the finally block: the dialog's first button, else Escape;
\* then the next post, or return
ClosePost ==
    /\ cpc = "close"
    /\ UNCHANGED outsideCaptions
    /\ \E button \in BOOLEAN, escape \in BOOLEAN :
         \* without an open dialog there is no button to find
         LET closed == (overlays > 0 /\ button) \/ (~(overlays > 0 /\ button) /\ escape)
         IN  overlays' = IF closed /\ overlays > 0 THEN overlays - 1 ELSE overlays
    /\ IF post_index < post_links
       THEN cpc' = "open" /\ post_index' = post_index + 1
       ELSE CapReturn /\ UNCHANGED post_index
    /\ UNCHANGED <<max_posts, anchors, post_links, grid_failed, captions, last_el>>

\* every grid of at most MaxAnchors anchors
Grids == SeqsUpTo(AnchorKinds, MaxAnchors)

NextCaptions ==
    \/ CollectPostLinks(Grids)
    \/ OpenPost
    \/ ExtractCaption(ElementAnswers, MetaAnswers, AltAnswers)
    \/ ClosePost

SpecCaptions == InitCaptions /\ [][NextCaptions]_vars

(***************************************************************************)
(* The field locators.  A block of code ends in one of three ways: it      *)
(* returns a value ("ret"), it runs to its end ("fall"), or an exception   *)
(* leaves it ("exc").  Counts are [absent, num]; names and biographies are *)
(* texts, as captions are.                                                 *)
(***************************************************************************)
AbsentCount == NoCount
Count(n) == [absent |-> FALSE, num |-> n]

Ret(v) == [st |-> "ret", val |-> v]
Fall(v) == [st |-> "fall", val |-> v]
Exc(v) == [st |-> "exc", val |-> v]

\* a variant of Try that catches nothing
TryNothing(b) == b
\* try: <block> except Exception: pass
Try(b) == IF b.st = "exc" THEN Fall(b.val) ELSE b

\* <block 1>; <block 2>
Then(b1, b2) == IF b1.st = "fall" THEN b2 ELSE b1

\* a number as the page writes it: a token with or without a leading digit
NoMatch == [match |-> FALSE, lead |-> FALSE, n |-> 0]
Token(lead, n) == [match |-> TRUE, lead |-> lead, n |-> n]
Tokens == {NoMatch, Token(TRUE, 0), Token(TRUE, 7), Token(FALSE, 0)}

\* utils.parse_follower_count: the number a token with a leading digit
\* stands for, None for any other token
parse_follower_count(tok) == IF tok.lead THEN Count(tok.n) ELSE AbsentCount

\* lines 28-37: the two parts of og:description; (None, None) for no content
extract_from_meta_description(content) ==
    IF content.state = "null"
    THEN [left |-> "None", right |-> <<>>]
    ELSE [left |-> "text", right |-> Strip(content.bio)]

\* ---- followers ---------------------------------------------------------
\* //span[@title]: its title raises, is None, is a word or is a number; its
\* parent raises or holds a text with or without the word followers
TitledSpans ==
    {[title |-> t, parent |-> "other", num |-> 0] : t \in {"raise", "none", "word"}}
        \cup [title : {"digits"}, parent : {"raise", "followers", "other"}, num : {0, 7}]

\* lines 44-54
RECURSIVE FollowersSpansLoop(_)
FollowersSpansLoop(spans) ==
    IF spans = <<>> THEN Fall(AbsentCount)
    ELSE LET span == Head(spans)
             parent_text == IF span.parent = "raise" THEN "" ELSE span.parent
         IN  IF span.title = "raise" THEN Exc(AbsentCount)
             ELSE IF span.title = "digits" /\ parent_text = "followers"
                  THEN Ret(parse_follower_count(Token(TRUE, span.num)))
                  ELSE FollowersSpansLoop(Tail(spans))

\* lines 40-57
get_followers_from_spans(d) ==
    Then(Try(IF d.query = "raise" THEN Exc(AbsentCount) ELSE FollowersSpansLoop(d.spans)),
         Ret(AbsentCount))

\* meta og:description: missing, content raising, content None, or a content
\* with (or without) a followers number, a following number and a biography
MetaDescription(toksA, toksB, bios) ==
    {[state |-> st, followers |-> NoMatch, following |-> NoMatch, bio |-> <<>>] :
        st \in {"missing", "unreadable", "null"}}
        \cup [state : {"text"}, followers : toksA, following : toksB, bio : bios]

\* lines 60-71
get_followers_from_meta(d) ==
    Then(Try(IF d.state \in {"missing", "unreadable"} THEN Exc(AbsentCount)
             ELSE LET left_text == extract_from_meta_description(d).left
                  IN  IF left_text = "None" THEN Exc(AbsentCount)
                      ELSE IF d.followers.match THEN Ret(parse_follower_count(d.followers))
                      ELSE Fall(AbsentCount)),
         Ret(AbsentCount))

\* driver.page_source: raising, or a source with (or without) the counts and the name
PageSource(counts, names) ==
    {[state |-> "raise", followers |-> AbsentCount, following |-> AbsentCount,
      full_name |-> <<>>]}
        \cup [state : {"text"}, followers : counts, following : counts, full_name : names]

\* lines 74-85
get_followers_from_page_source(d) ==
    Then(Try(IF d.state = "raise" THEN Exc(AbsentCount)
             ELSE IF ~d.followers.absent THEN Ret(d.followers)
             ELSE Fall(AbsentCount)),
         Ret(AbsentCount))

\* ---- following ---------------------------------------------------------
\* lines 102-113: //header//span, the first whose text reads "<n> following"
RECURSIVE FollowingSpansLoop(_)
FollowingSpansLoop(spans) ==
    IF spans = <<>> THEN Fall(AbsentCount)
    ELSE IF Head(spans).text = "raise" THEN Exc(AbsentCount)
    ELSE IF Head(spans).text = "match" THEN Ret(Count(Head(spans).num))
    ELSE FollowingSpansLoop(Tail(spans))

\* lines 117-134: the whole header text
FollowingHeaderText(h) ==
    Try(IF h.text = "raise" THEN Exc(AbsentCount)
        ELSE IF h.text = "match" THEN Ret(Count(h.num))
        ELSE Fall(AbsentCount))

\* lines 140-153: the number spans; one that raises is skipped
RECURSIVE FollowingNumberSpans(_)
FollowingNumberSpans(spans) ==
    IF spans = <<>> THEN Fall(AbsentCount)
    ELSE LET span == Head(spans)
             one == Try(IF span.text = "raise" THEN Exc(AbsentCount)
                        ELSE IF span.text = "digits"
                             THEN IF span.ancestor = "raise" THEN Exc(AbsentCount)
                                  ELSE Ret(parse_follower_count(Token(TRUE, span.num)))
                             ELSE Fall(AbsentCount))
         IN  Then(one, FollowingNumberSpans(Tail(spans)))

HeaderSpans == [text : {"raise", "other", "match"}, num : {7}]
NumberSpans ==
    {[text |-> t, ancestor |-> "found", num |-> 0] : t \in {"raise", "word"}}
        \cup [text : {"digits"}, ancestor : {"raise", "found"}, num : {7}]

\* lines 88-157
get_following_from_spans(d) ==
    Then(Try(Then(IF d.query = "raise" THEN Exc(AbsentCount)
                  ELSE FollowingSpansLoop(d.spans),
             Then(FollowingHeaderText(d.header),
                  IF d.nquery = "raise" THEN Exc(AbsentCount)
                  ELSE FollowingNumberSpans(d.nspans)))),
         Ret(AbsentCount))

\* lines 160-171: re.search on a None content raises
get_following_from_meta(d) ==
    Then(Try(IF d.state \in {"missing", "unreadable", "null"} THEN Exc(AbsentCount)
             ELSE IF d.following.match THEN Ret(parse_follower_count(d.following))
             ELSE Fall(AbsentCount)),
         Ret(AbsentCount))

\* lines 174-192
get_following_from_page_source(d) ==
    Then(Try(IF d.state = "raise" THEN Exc(AbsentCount)
             ELSE IF ~d.following.absent THEN Ret(d.following)
             ELSE Fall(AbsentCount)),
         Ret(AbsentCount))

\* ---- name --------------------------------------------------------------
\* the text of an h1 / h2 of the header: raising, empty, all lower case, with
\* an upper-case letter, with an @ and an upper-case letter, or not ASCII
Headings == {"raise", "empty", "lower", "Mixed", "@Mixed", "unicode"}
HeadingText(k) == <<Run("h", IF k = "Mixed" THEN 1 ELSE 2)>>

\* lines 207-214
RECURSIVE NameHeadings(_)
NameHeadings(names) ==
    IF names = <<>> THEN Fall(Absent)
    ELSE IF Head(names) = "raise" THEN Exc(Absent)
    ELSE IF Head(names) \in {"Mixed", "unicode"} THEN Ret(Value(HeadingText(Head(names))))
    ELSE NameHeadings(Tail(names))

\* lines 204-214: a section whose headings cannot be queried raises
RECURSIVE NameSections(_)
NameSections(sections) ==
    IF sections = <<>> THEN Fall(Absent)
    ELSE IF Head(sections).query = "raise" THEN Exc(Absent)
    ELSE Then(NameHeadings(Head(sections).names), NameSections(Tail(sections)))

\* lines 219-228: og:title "Name (@username)"
NameFromTitle(t) ==
    IF t \in {"missing", "null"} THEN Exc(Absent)
    ELSE IF t = "name" THEN Ret(Value(<<Run("t", 1)>>))
    ELSE Fall(Absent)
Titles == {"missing", "null", "nomatch", "name", "@name"}

\* lines 234-240: "full_name":"..." in the page source
NameFromSource(d) ==
    IF d.state = "raise" THEN Exc(Absent)
    ELSE IF Strip(d.full_name) # <<>> THEN Ret(Value(Strip(d.full_name)))
    ELSE Fall(Absent)

\* lines 246-253: //header//span[@dir='auto']
RECURSIVE NameAutoSpans(_)
NameAutoSpans(spans) ==
    IF spans = <<>> THEN Fall(Absent)
    ELSE IF Head(spans) = "raise" THEN Exc(Absent)
    ELSE IF Head(spans) = "name" THEN Ret(Value(<<Run("s", 3)>>))
    ELSE NameAutoSpans(Tail(spans))
AutoSpans == {"raise", "short", "digits", "@", "label", "name"}

\* lines 195-257: four methods, each in its own try
get_full_name(d) ==
    Then(Try(IF d.query = "raise" THEN Exc(Absent) ELSE NameSections(d.sections)),
    Then(Try(NameFromTitle(d.title)),
    Then(Try(NameFromSource(d.source)),
    Then(Try(IF d.squery = "raise" THEN Exc(Absent) ELSE NameAutoSpans(d.spans)),
         Ret(Absent)))))

\* ---- biography ---------------------------------------------------------
\* lines 414-421: div[data-testid='user-bio']; the text may hold only "<n> following"
BioFromTestId(b) ==
    IF b \in {"missing", "unreadable"} THEN Exc(Absent)
    ELSE IF b = "bio" THEN Ret(Value(<<Run("b", 4)>>))
    ELSE Fall(Absent)
TestIdBios == {"missing", "unreadable", "empty", "following only", "bio"}

\* lines 429-435: the texts of the header divs longer than 5; a div whose text
\* raises is skipped
RECURSIVE BioCandidates(_)
BioCandidates(divs) ==
    IF divs = <<>> THEN <<>>
    ELSE (IF Head(divs) \in {"raise", "short"} THEN <<>> ELSE <<Head(divs)>>)
            \o BioCandidates(Tail(divs))

\* lines 437-446: the longest candidate without a label word whose first line
\* is longer than 3 (a "long" text before a "bio" one)
BioFromCandidates(cands) ==
    IF \E i \in 1..Len(cands) : cands[i] = "long" THEN Ret(Value(<<Run("d", 9)>>))
    ELSE IF \E i \in 1..Len(cands) : cands[i] = "bio" THEN Ret(Value(<<Run("d", 6)>>))
    ELSE Fall(Absent)
HeaderDivs == {"raise", "short", "label", "brief", "bio", "long"}

\* lines 452-460: the right part of og:description
BioFromMeta(d) ==
    IF d.state \in {"missing", "unreadable"} THEN Exc(Absent)
    ELSE LET possible_bio == extract_from_meta_description(d).right
         IN  IF possible_bio # <<>> /\ TextLen(possible_bio) > 3
             THEN Ret(Value(possible_bio))
             ELSE Fall(Absent)

\* lines 407-464: three methods, each in its own try
get_bio(d) ==
    Then(Try(BioFromTestId(d.testid)),
    Then(Try(IF d.query = "raise" THEN Exc(Absent)
             ELSE BioFromCandidates(BioCandidates(d.divs))),
    Then(Try(BioFromMeta(d.meta)),
         Ret(Absent))))

(***************************************************************************)
(* What the DOM of a profile page answers to each locator.                 *)
(***************************************************************************)
FollowersSpansAnswers == [query : {"raise", "ok"}, spans : SeqsUpTo(TitledSpans, MaxElems)]
FollowersMetaAnswers ==
    MetaDescription({NoMatch, Token(TRUE, 7), Token(FALSE, 0)}, {NoMatch}, {<<>>})
FollowersSourceAnswers ==
    {d \in PageSource({AbsentCount, Count(0), Count(7)}, {<<>>}) : d.following.absent}
FollowingSpansAnswers ==
    [query : {"raise", "ok"}, spans : SeqsUpTo(HeaderSpans, MaxElems),
     header : [text : {"raise", "other", "match"}, num : {7}],
     nquery : {"raise", "ok"}, nspans : SeqsUpTo(NumberSpans, MaxElems)]
FollowingMetaAnswers ==
    MetaDescription({NoMatch}, {NoMatch, Token(TRUE, 7), Token(FALSE, 0)}, {<<>>})
FollowingSourceAnswers ==
    {d \in PageSource({AbsentCount, Count(0), Count(7)}, {<<>>}) : d.followers.absent}
\* a page on which every DOM call of _get_full_name raises
NoName ==
    [query |-> "raise", sections |-> <<>>, title |-> "missing",
     source |-> [state |-> "raise", followers |-> AbsentCount, following |-> AbsentCount,
                 full_name |-> <<>>],
     squery |-> "raise", spans |-> <<>>]
NameSources ==
    {d \in PageSource({AbsentCount}, {<<>>, <<Run(" ", 1)>>, <<Run("j", 1)>>}) :
        d.followers.absent /\ d.following.absent}
\* the pages on which one method of _get_full_name has something to read, and
\* the pages on which several have
NameAnswers ==
    {[NoName EXCEPT !.query = "ok", !.sections = ss] :
        ss \in {<<>>, <<[query |-> "raise", names |-> <<>>]>>}
                 \cup {<<[query |-> "ok", names |-> <<k>>]>> : k \in Headings}
                 \cup {<<[query |-> "ok", names |-> <<"lower", "Mixed">>]>>}}
        \cup {[NoName EXCEPT !.title = t] : t \in Titles}
        \cup {[NoName EXCEPT !.source = x] : x \in NameSources}
        \cup {[NoName EXCEPT !.squery = "ok", !.spans = sp] :
                 sp \in SeqsUpTo(AutoSpans, MaxElems)}
        \cup [query : {"ok"},
              sections : {<<[query |-> "raise", names |-> <<>>]>>,
                          <<[query |-> "ok", names |-> <<"Mixed">>]>>},
              title : {"nomatch", "name"},
              source : {x \in NameSources : x.state = "raise" \/ x.full_name = <<Run("j", 1)>>},
              squery : {"ok"},
              spans : {<<"name">>}]
\* a page on which every DOM call of get_bio raises
NoBio ==
    [testid |-> "missing", query |-> "raise", divs |-> <<>>,
     meta |-> [state |-> "missing", followers |-> NoMatch, following |-> NoMatch,
               bio |-> <<>>]]
BioMetas == MetaDescription({NoMatch}, {NoMatch}, {<<>>, <<Run("m", 2)>>, <<Run("m", 5)>>})
\* the pages on which one method of get_bio has something to read, and the
\* pages on which several have
BioAnswers ==
    {[NoBio EXCEPT !.testid = t] : t \in TestIdBios}
        \cup {[NoBio EXCEPT !.query = "ok", !.divs = ds] :
                 ds \in SeqsUpTo(HeaderDivs, MaxElems)}
        \cup {[NoBio EXCEPT !.meta = x] : x \in BioMetas}
        \cup [testid : {"empty", "bio"}, query : {"ok"}, divs : {<<"label">>, <<"bio">>},
              meta : {x \in BioMetas : x.bio = <<Run("m", 5)>>}]

\* a profile page on which only one strategy of each field can answer
FewFollowersSpans ==
    {[query |-> "raise", spans |-> <<>>],
     [query |-> "ok", spans |-> <<[title |-> "digits", parent |-> "followers", num |-> 0]>>],
     [query |-> "ok", spans |-> <<[title |-> "digits", parent |-> "followers", num |-> 7]>>]}
FewMeta == MetaDescription({NoMatch}, {NoMatch}, {<<>>})
FewSource == PageSource({AbsentCount}, {<<>>})
FewFollowingSpans ==
    {[query |-> "raise", spans |-> <<>>, header |-> [text |-> "raise", num |-> 7],
      nquery |-> "raise", nspans |-> <<>>]}
FewNames ==
    [query : {"raise"}, sections : {<<>>}, title : {"name"},
     source : {d \in FewSource : d.state = "raise"}, squery : {"raise"}, spans : {<<>>}]
FewBios ==
    [testid : {"missing"}, query : {"raise"}, divs : {<<>>},
     meta : {d \in FewMeta : d.state = "missing"}]

\* post overlays with few answers
FewMetas == {[state |-> "missing", text |-> <<>>]}
FewGrids == {<<>>, <<"post">>}

(***************************************************************************)
(* get_profile_info                                                        *)
(***************************************************************************)
\* a variant of Catches whose second handler is missing
CatchesTimeoutOnly(kind) == kind = "TimeoutException"
\* lines 597 and 607: except TimeoutException, except Exception
Catches(kind) == kind \in {"TimeoutException", "Exception"}

\* an exception of this kind is raised inside the try of get_profile_info
Handle(kind) ==
    /\ failure' = kind
    /\ IF Catches(kind)
       THEN ppc' = "done" /\ info' = FailureRecord(username)
       ELSE ppc' = "raised" /\ UNCHANGED info

\* a variant of IsNone that takes a count of zero for None
IsFalsy(v) == v.absent \/ v.num = 0
\* lines 565, 567, 572, 574: if follower_count is None
IsNone(v) == v.absent

\* the strategies of the two counts
CountStrategies ==
    {"followers_spans", "followers_meta", "followers_source", "following_spans",
     "following_meta", "following_source"}

\* a locator has answered r: go on, or let its exception reach the handler
Located(name, r, first_call_raised, next) ==
    /\ tried' = IF name \in CountStrategies /\ r.st # "exc"
                THEN Append(tried, [name |-> name, val |-> r.val])
                ELSE tried
    /\ dom_raised' = IF first_call_raised THEN dom_raised \cup {name} ELSE dom_raised
    /\ IF r.st = "exc"
       THEN escaped' = escaped \cup {name} /\ Handle("Exception")
       ELSE ppc' = next /\ UNCHANGED <<escaped, info, failure>>

InitProfile ==
    /\ ppc = "navigate"
    /\ username \in FewIds
    /\ posts_to_extract \in {0, 1}
    /\ info = FailureRecord("")
    /\ ProfLocals
    /\ ScrapeIdle
    /\ CapIdle
    /\ BatchIdle
    /\ MainIdle
    /\ AnalysisIdle

\* lines 557-559: driver.get
GPI_Navigate ==
    /\ ppc = "navigate"
    /\ \E outcome \in {"ok", "TimeoutException", "Exception"} :
         IF outcome = "ok" THEN ppc' = "wait" /\ UNCHANGED <<info, failure>>
         ELSE Handle(outcome)
    /\ UNCHANGED <<username, posts_to_extract, follower_count, following_count,
                   full_name, bio_text, escaped, dom_raised, tried>>
    /\ UNCHANGED <<capVars, outsideProfile>>

\* line 561: wait for the header
GPI_WaitHeader ==
    /\ ppc = "wait"
    /\ \E outcome \in {"ok", "TimeoutException", "Exception"} :
         IF outcome = "ok" THEN ppc' = "followers_spans" /\ UNCHANGED <<info, failure>>
         ELSE Handle(outcome)
    /\ UNCHANGED <<username, posts_to_extract, follower_count, following_count,
                   full_name, bio_text, escaped, dom_raised, tried>>
    /\ UNCHANGED <<capVars, outsideProfile>>

\* line 564
GPI_FollowersSpans(answers) ==
    /\ ppc = "followers_spans"
    /\ \E d \in answers :
         LET r == get_followers_from_spans(d)
         IN  /\ Located("followers_spans", r, d.query = "raise",
                        IF IsNone(r.val) THEN "followers_meta" ELSE "following_spans")
             /\ follower_count' = IF r.st = "exc" THEN follower_count ELSE r.val
    /\ UNCHANGED <<username, posts_to_extract, following_count, full_name, bio_text>>
    /\ UNCHANGED <<capVars, outsideProfile>>

\* lines 565-566
GPI_FollowersMeta(answers) ==
    /\ ppc = "followers_meta"
    /\ \E d \in answers :
         LET r == get_followers_from_meta(d)
         IN  /\ Located("followers_meta", r, d.state = "missing",
                        IF IsNone(r.val) THEN "followers_source" ELSE "following_spans")
             /\ follower_count' = IF r.st = "exc" THEN follower_count ELSE r.val
    /\ UNCHANGED <<username, posts_to_extract, following_count, full_name, bio_text>>
    /\ UNCHANGED <<capVars, outsideProfile>>

\* lines 567-568
GPI_FollowersSource(answers) ==
    /\ ppc = "followers_source"
    /\ \E d \in answers :
         LET r == get_followers_from_page_source(d)
         IN  /\ Located("followers_source", r, d.state = "raise", "following_spans")
             /\ follower_count' = IF r.st = "exc" THEN follower_count ELSE r.val
    /\ UNCHANGED <<username, posts_to_extract, following_count, full_name, bio_text>>
    /\ UNCHANGED <<capVars, outsideProfile>>

\* line 571
GPI_FollowingSpans(answers) ==
    /\ ppc = "following_spans"
    /\ \E d \in answers :
         LET r == get_following_from_spans(d)
         IN  /\ Located("following_spans", r, d.query = "raise",
                        IF IsNone(r.val) THEN "following_meta" ELSE "name")
             /\ following_count' = IF r.st = "exc" THEN following_count ELSE r.val
    /\ UNCHANGED <<username, posts_to_extract, follower_count, full_name, bio_text>>
    /\ UNCHANGED <<capVars, outsideProfile>>

\* lines 572-573
GPI_FollowingMeta(answers) ==
    /\ ppc = "following_meta"
    /\ \E d \in answers :
         LET r == get_following_from_meta(d)
         IN  /\ Located("following_meta", r, d.state = "missing",
                        IF IsNone(r.val) THEN "following_source" ELSE "name")
             /\ following_count' = IF r.st = "exc" THEN following_count ELSE r.val
    /\ UNCHANGED <<username, posts_to_extract, follower_count, full_name, bio_text>>
    /\ UNCHANGED <<capVars, outsideProfile>>

\* lines 574-575
GPI_FollowingSource(answers) ==
    /\ ppc = "following_source"
    /\ \E d \in answers :
         LET r == get_following_from_page_source(d)
         IN  /\ Located("following_source", r, d.state = "raise", "name")
             /\ following_count' = IF r.st = "exc" THEN following_count ELSE r.val
    /\ UNCHANGED <<username, posts_to_extract, follower_count, full_name, bio_text>>
    /\ UNCHANGED <<capVars, outsideProfile>>

\* line 578
GPI_Name(answers) ==
    /\ ppc = "name"
    /\ \E d \in answers :
         LET r == get_full_name(d)
         IN  /\ Located("name", r, d.query = "raise", "bio")
             /\ full_name' = IF r.st = "exc" THEN full_name ELSE r.val
    /\ UNCHANGED <<username, posts_to_extract, follower_count, following_count, bio_text>>
    /\ UNCHANGED <<capVars, outsideProfile>>

\* line 581
GPI_Bio(answers) ==
    /\ ppc = "bio"
    /\ \E d \in answers :
         LET r == get_bio(d)
         IN  /\ Located("bio", r, d.testid = "missing", "captions")
             /\ bio_text' = IF r.st = "exc" THEN bio_text ELSE r.val
    /\ UNCHANGED <<username, posts_to_extract, follower_count, following_count, full_name>>
    /\ UNCHANGED <<capVars, outsideProfile>>

\* lines 584-586: call get_recent_captions when captions are asked for
GPI_Captions ==
    /\ ppc = "captions"
    /\ IF posts_to_extract > 0
       THEN /\ ppc' = "in_captions"
            /\ cpc' = "collect"
            /\ max_posts' = posts_to_extract
            /\ UNCHANGED <<anchors, post_links, grid_failed, post_index, captions,
                           overlays, last_el>>
       ELSE /\ ppc' = "return"
            /\ UNCHANGED capVars
    /\ UNCHANGED <<username, posts_to_extract, follower_count, following_count,
                   full_name, bio_text, info, failure, escaped, dom_raised, tried>>
    /\ UNCHANGED outsideProfile

\* lines 588-595: the record, with the captions get_recent_captions returned
GPI_Return ==
    /\ \/ ppc = "return"
       \/ ppc = "in_captions" /\ cpc = "done"
    /\ info' = Record(username, full_name, follower_count, following_count, bio_text,
                      captions)
    /\ ppc' = "done"
    /\ cpc' = "idle"
    /\ max_posts' = 0
    /\ anchors' = <<>>
    /\ post_links' = 0
    /\ grid_failed' = FALSE
    /\ post_index' = 0
    /\ captions' = <<>>
    /\ last_el' = NotQueried
    /\ UNCHANGED overlays
    /\ UNCHANGED <<username, posts_to_extract, follower_count, following_count,
                   full_name, bio_text, failure, escaped, dom_raised, tried>>
    /\ UNCHANGED outsideProfile

NextProfile ==
    \/ GPI_Navigate
    \/ GPI_WaitHeader
    \/ GPI_FollowersSpans(FollowersSpansAnswers)
    \/ GPI_FollowersMeta(FollowersMetaAnswers)
    \/ GPI_FollowersSource(FollowersSourceAnswers)
    \/ GPI_FollowingSpans(FollowingSpansAnswers)
    \/ GPI_FollowingMeta(FollowingMetaAnswers)
    \/ GPI_FollowingSource(FollowingSourceAnswers)
    \/ GPI_Name(NameAnswers)
    \/ GPI_Bio(BioAnswers)
    \/ GPI_Captions
    \/ GPI_Return
    \/ CollectPostLinks(FewGrids)
    \/ OpenPost
    \/ ExtractCaption(FewMetas, FewMetas, FewMetas)
    \/ ClosePost

SpecProfile == InitProfile /\ [][NextProfile]_vars

(***************************************************************************)
(* collect_followers_data                                                  *)
(***************************************************************************)
\* list(usernames_set): the members in any order
Orderings(S) ==
    {s \in [1..Cardinality(S) -> S] : \A i, j \in DOMAIN s : i # j => s[i] # s[j]}

\* a variant of Truncates that keeps the whole list
NeverTruncates(mp) == FALSE
\* a variant of Truncates that takes a zero for a bound
TruncatesOnZero(mp) == mp # NoCap
\* line 631: if max_profiles
Truncates(mp) == mp # NoCap /\ mp # 0

\* line 632: usernames_list[:max_profiles]
Truncated(list, mp) ==
    IF Truncates(mp) THEN SubSeq(list, 1, Min(mp, Len(list))) ELSE list

InitBatch ==
    /\ bpc = "start"
    /\ max_profiles \in {NoCap} \cup (0..MaxProfiles)
    /\ usernames_set \in {S \in SUBSET FewIds : Cardinality(S) <= MaxProfiles}
    /\ usernames_list \in Orderings(usernames_set)
    /\ index = 0
    /\ followers_data = <<>>
    /\ called = <<>>
    /\ failed_calls = {}
    /\ successful = 0
    /\ failed = 0
    /\ ppc = "idle"
    /\ username = ""
    /\ posts_to_extract \in {0, 1}
    /\ info = FailureRecord("")
    /\ ProfLocals
    /\ ScrapeIdle
    /\ CapIdle
    /\ MainIdle
    /\ AnalysisIdle

\* lines 628-634
B_Start ==
    /\ bpc = "start"
    /\ usernames_list' = Truncated(usernames_list, max_profiles)
    /\ index' = 1
    /\ bpc' = "loop"
    /\ UNCHANGED <<max_profiles, usernames_set, followers_data, called, failed_calls,
                   successful, failed>>
    /\ UNCHANGED <<profVars, outsideBatch>>

\* lines 636-639: the call of get_profile_info for the next username
B_Call ==
    /\ bpc = "loop"
    /\ index <= Len(usernames_list)
    /\ bpc' = "call"
    /\ called' = Append(called, usernames_list[index])
    /\ ppc' = "navigate"
    /\ username' = usernames_list[index]
    /\ info' = FailureRecord("")
    /\ follower_count' = NoCount
    /\ following_count' = NoCount
    /\ full_name' = NoText
    /\ bio_text' = NoText
    /\ failure' = "none"
    /\ escaped' = {}
    /\ dom_raised' = {}
    /\ tried' = <<>>
    /\ UNCHANGED <<max_profiles, usernames_set, usernames_list, index, followers_data,
                   failed_calls, successful, failed, posts_to_extract>>
    /\ UNCHANGED outsideBatch

\* lines 641-648: the record is appended; an exception of the call ends the batch
B_Append ==
    /\ bpc = "call"
    /\ ppc \in {"done", "raised"}
    /\ IF ppc = "raised"
       THEN /\ bpc' = "aborted"
            /\ UNCHANGED <<followers_data, index>>
       ELSE /\ bpc' = "loop"
            /\ followers_data' = Append(followers_data, info)
            /\ index' = index + 1
    /\ ppc' = "idle"
    /\ failed_calls' = IF failure # "none" THEN failed_calls \cup {index} ELSE failed_calls
    /\ UNCHANGED <<successful, failed>>
    /\ UNCHANGED <<max_profiles, usernames_set, usernames_list, called>>
    /\ UNCHANGED <<username, posts_to_extract, follower_count, following_count,
                   full_name, bio_text, info, failure, escaped, dom_raised, tried>>
    /\ UNCHANGED outsideBatch

\* a variant of Successful that takes a count of zero for a failure
SuccessfulTruthy(data) ==
    Cardinality({i \in DOMAIN data : ~ data[i].followers.absent /\ data[i].followers.num # 0})
\* line 651: followers is not None
Successful(data) == Cardinality({i \in DOMAIN data : ~ data[i].followers.absent})

\* lines 650-660: the loop is over
B_Return ==
    /\ bpc = "loop"
    /\ index > Len(usernames_list)
    /\ bpc' = "done"
    /\ successful' = Successful(followers_data)
    /\ failed' = Len(usernames_list) - Successful(followers_data)
    /\ UNCHANGED <<max_profiles, usernames_set, usernames_list, index, followers_data,
                   called, failed_calls>>
    /\ UNCHANGED <<profVars, outsideBatch>>

NextBatch ==
    \/ B_Start
    \/ B_Call
    \/ B_Append
    \/ B_Return
    \/ GPI_Navigate
    \/ GPI_WaitHeader
    \/ GPI_FollowersSpans(FewFollowersSpans)
    \/ GPI_FollowersMeta(FewMeta)
    \/ GPI_FollowersSource(FewSource)
    \/ GPI_FollowingSpans(FewFollowingSpans)
    \/ GPI_FollowingMeta(FewMeta)
    \/ GPI_FollowingSource(FewSource)
    \/ GPI_Name(FewNames)
    \/ GPI_Bio(FewBios)
    \/ GPI_Captions
    \/ GPI_Return
    \/ CollectPostLinks(FewGrids)
    \/ OpenPost
    \/ ExtractCaption(FewMetas, FewMetas, FewMetas)
    \/ ClosePost

SpecBatch == InitBatch /\ [][NextBatch]_vars

(***************************************************************************)
(* main (scrape_followers.py), from the started browser on.                *)
(***************************************************************************)
\* the caption counts an operator may enter
Entered == {-1, 1, 7}

\* a variant of Clamp that keeps what was entered
NoClamp(n) == n
\* line 52: max(0, min(posts_to_extract, 5))
Clamp(n) == Max(0, Min(n, 5))

\* a variant of NoFollowers that takes every set for a result
NeverNoFollowers(set) == FALSE
\* line 60: if not followers
NoFollowers(set) == set = {}

\* a function has returned or was left: its locals are gone
ScrapeGone ==
    /\ pc' = "idle"
    /\ limit' = 1
    /\ followers' = {}
    /\ modal' = NoHandle
    /\ queried_at' = 0
    /\ since_change' = 0
    /\ last_scroll_position' = 0
    /\ no_change_count' = 0
    /\ consecutive_errors' = 0
    /\ result' = {}
    /\ exit' = "none"
    /\ dialog' = FALSE
    /\ feed' = <<>>
    /\ passes' = 0
    /\ scrolls' = 0
    /\ extra_scrolls' = 0
    /\ reads' = 0
    /\ offsets' = {}
    /\ faulted' = FALSE
    /\ seen' = {}

BatchGone ==
    /\ bpc' = "idle"
    /\ max_profiles' = NoCap
    /\ usernames_set' = {}
    /\ usernames_list' = <<>>
    /\ index' = 0
    /\ followers_data' = <<>>
    /\ called' = <<>>
    /\ failed_calls' = {}
    /\ successful' = 0
    /\ failed' = 0

InitMain ==
    /\ mpc = "login"
    /\ main_limit \in 1..MaxLimit
    /\ entered \in Entered
    /\ main_posts = 0
    /\ main_followers = {}
    /\ txt_file = NoTxt
    /\ json_file = NoJson
    /\ analysed = FALSE
    /\ quits = 0
    /\ main_exc = "none"
    /\ collected = <<>>
    /\ ScrapeIdle
    /\ CapIdle
    /\ ProfIdle
    /\ BatchIdle
    /\ AnalysisIdle

\* lines 28-44: cookies or login; a failed login returns
M_Login ==
    /\ mpc = "login"
    /\ \E logged_in \in BOOLEAN : mpc' = IF logged_in THEN "input" ELSE "finally"
    /\ UNCHANGED <<main_limit, entered, main_posts, main_followers, txt_file, json_file,
                   analysed, quits, main_exc, collected>>
    /\ UNCHANGED <<scrapeVars, capVars, profVars, batchVars, analysisVars>>

\* lines 48-58: the inputs, the clamp, the call of scrape_followers
M_Input ==
    /\ mpc = "input"
    /\ main_posts' = Clamp(entered)
    /\ mpc' = "scrape"
    /\ pc' = "navigate"
    /\ limit' = main_limit
    /\ UNCHANGED <<followers, modal, queried_at, since_change, last_scroll_position, no_change_count,
                   consecutive_errors, result, exit, dialog, feed, passes, scrolls,
                   extra_scrolls, reads, offsets, faulted, seen>>
    /\ UNCHANGED <<main_limit, entered, main_followers, txt_file, json_file, analysed,
                   quits, main_exc, collected>>
    /\ UNCHANGED <<capVars, profVars, batchVars, analysisVars>>

\* lines 58-62: scrape_followers has returned; an empty set ends the run
M_Scraped ==
    /\ mpc = "scrape"
    /\ pc = "done"
    /\ main_followers' = result
    /\ mpc' = IF NoFollowers(result) THEN "finally" ELSE "save_txt"
    /\ ScrapeGone
    /\ UNCHANGED <<main_limit, entered, main_posts, txt_file, json_file, analysed, quits,
                   main_exc, collected>>
    /\ UNCHANGED <<capVars, profVars, batchVars, analysisVars>>

\* line 65: save_followers_txt
M_SaveTxt ==
    /\ mpc = "save_txt"
    /\ txt_file' = [saved |-> TRUE, content |-> main_followers]
    /\ mpc' = "collect"
    /\ UNCHANGED <<main_limit, entered, main_posts, main_followers, json_file, analysed,
                   quits, main_exc, collected>>
    /\ UNCHANGED <<scrapeVars, capVars, profVars, batchVars, analysisVars>>

\* line 71: the call of collect_followers_data with max_profiles = limit
M_Collect ==
    /\ mpc = "collect"
    /\ mpc' = "collecting"
    /\ bpc' = "start"
    /\ max_profiles' = main_limit
    /\ usernames_set' = main_followers
    /\ usernames_list' \in Orderings(main_followers)
    /\ posts_to_extract' = main_posts
    /\ UNCHANGED <<index, followers_data, called, failed_calls, successful, failed>>
    /\ UNCHANGED <<ppc, username, follower_count, following_count, full_name, bio_text,
                   info, failure, escaped, dom_raised, tried>>
    /\ UNCHANGED <<main_limit, entered, main_posts, main_followers, txt_file, json_file,
                   analysed, quits, main_exc, collected>>
    /\ UNCHANGED <<scrapeVars, capVars, analysisVars>>

\* line 74: collect_followers_data has returned; save_followers_data_json
M_SaveJson ==
    /\ mpc = "collecting"
    /\ bpc = "done"
    /\ json_file' = [saved |-> TRUE, data |-> followers_data]
    /\ collected' = followers_data
    /\ mpc' = "benford"
    /\ BatchGone
    /\ UNCHANGED <<main_limit, entered, main_posts, main_followers, txt_file, analysed,
                   quits, main_exc>>
    /\ UNCHANGED <<scrapeVars, capVars, profVars, analysisVars>>

\* line 80: analizar_benford
M_Benford ==
    /\ mpc = "benford"
    /\ analysed' = TRUE
    /\ mpc' = "finally"
    /\ UNCHANGED <<main_limit, entered, main_posts, main_followers, txt_file, json_file,
                   quits, main_exc, collected>>
    /\ UNCHANGED <<scrapeVars, capVars, profVars, batchVars, analysisVars>>

\* lines 93-98: the operator's interrupt, or any other exception, between two
\* steps of main or between two profiles of collect_followers_data (647); the
\* handlers print and nothing else
M_Abort ==
    /\ \/ mpc \in {"input", "save_txt", "collect", "benford"}
       \/ mpc = "collecting" /\ bpc = "loop"
    /\ \E kind \in {"KeyboardInterrupt", "Exception"} : main_exc' = kind
    /\ collected' = followers_data
    /\ mpc' = "finally"
    /\ BatchGone
    /\ UNCHANGED <<main_limit, entered, main_posts, main_followers, txt_file, json_file,
                   analysed, quits>>
    /\ UNCHANGED <<scrapeVars, capVars, profVars, analysisVars>>

\* lines 99-102: the prompt, then driver.quit; a prompt that raises skips it
M_Finally ==
    /\ mpc = "finally"
    /\ \E prompted \in BOOLEAN : quits' = IF prompted THEN quits + 1 ELSE quits
    /\ mpc' = "end"
    /\ UNCHANGED <<main_limit, entered, main_posts, main_followers, txt_file, json_file,
                   analysed, main_exc, collected>>
    /\ UNCHANGED <<scrapeVars, capVars, profVars, batchVars, analysisVars>>

NextMain ==
    \/ M_Login
    \/ M_Input
    \/ M_Scraped
    \/ M_SaveTxt
    \/ M_Collect
    \/ M_SaveJson
    \/ M_Benford
    \/ M_Abort
    \/ M_Finally
    \/ ScrapeSteps
    \/ FreePass
    \/ B_Start
    \/ B_Call
    \/ B_Append
    \/ B_Return
    \/ GPI_Navigate
    \/ GPI_WaitHeader
    \/ GPI_FollowersSpans(FewFollowersSpans)
    \/ GPI_FollowersMeta(FewMeta)
    \/ GPI_FollowersSource(FewSource)
    \/ GPI_FollowingSpans(FewFollowingSpans)
    \/ GPI_FollowingMeta(FewMeta)
    \/ GPI_FollowingSource(FewSource)
    \/ GPI_Name(FewNames)
    \/ GPI_Bio(FewBios)
    \/ GPI_Captions
    \/ GPI_Return
    \/ CollectPostLinks(FewGrids)
    \/ OpenPost
    \/ ExtractCaption(FewMetas, FewMetas, FewMetas)
    \/ ClosePost

SpecMain == InitMain /\ [][NextMain]_vars

(***************************************************************************)
(* The downstream analyses: analyze_bio.main and analizar_benford read     *)
(* the JSON file of records.                                               *)
(***************************************************************************)
\* most records in a document
MaxRecords == 1

\* the records a file may hold: followers, bio and captions present or null
AnalysisRecords ==
    {Record("a", NoText, fc, NoCount, b, caps) :
        fc \in {NoCount, Count(0), Count(7)},
        b \in {Absent, Value(<<Run("b", 1)>>)},
        caps \in SeqsUpTo({Absent, Value(<<Run("e", 1)>>)}, MaxPosts)}

\* a bare list, the envelope {"data": L}, and an object with another key
Documents ==
    UNION {{JsonList(L), JsonObject("data", L), JsonObject("users", L)} :
             L \in SeqsUpTo(AnalysisRecords, MaxRecords)}

\* a variant of LoadRecords that reads bare lists only
LoadRecordsListOnly(d) == IF d.kind = "list" THEN d.items ELSE <<>>
\* analyze_bio.py lines 260-273: an object without "data" is read as a map of
\* usernames to records, of which a list value is none
LoadRecords(d) ==
    IF d.kind = "dict" /\ d.key = "data" THEN d.items
    ELSE IF d.kind = "list" THEN d.items
    ELSE <<>>

\* benford_analysis.py lines 20-33
cargar_json_instagram(d) ==
    IF d.kind = "list" THEN Frame(d.items)
    ELSE IF d.key = "data" THEN Frame(d.items)
    ELSE IF Len(d.items) > 0 THEN Frame(d.items)
    ELSE WholeFrame

\* analyze_bio.py lines 278-279: item.get("bio") or "", item.get("recent_captions") or []
OrEmptyText(v) == IF Truthy(v) THEN v.text ELSE <<>>

\* " ".join(captions): str.join raises TypeError on an item that is not a str
RECURSIVE StrJoin(_)
StrJoin(caps) ==
    IF caps = <<>> THEN Ret(<<>>)
    ELSE IF Head(caps).absent THEN Exc(<<>>)
    ELSE LET rest == StrJoin(Tail(caps))
         IN  IF rest.st = "exc" THEN rest
             ELSE IF Tail(caps) = <<>> THEN Ret(Head(caps).text)
             ELSE Ret(Canon(Head(caps).text \o <<Run(" ", 1)>> \o rest.val))

\* analyze_bio.py lines 142-190: tokenize takes None for "", the join of line
\* 170 does not; no modelled text holds a keyword, so the label is "unknown"
classify_profile(b, caps) ==
    LET joined == IF caps # <<>> THEN StrJoin(caps) ELSE Ret(<<>>)
    IN  IF joined.st = "exc" THEN Exc("TypeError") ELSE Ret("unknown")

\* benford_analysis.py lines 36-44: the first digit 1-9, 0 standing for NaN
RECURSIVE LeadingDigit(_)
LeadingDigit(n) == IF n < 10 THEN n ELSE LeadingDigit(n \div 10)
primer_digito_valor(v) == IF v.absent THEN 0 ELSE LeadingDigit(v.num)

\* benford_analysis.py lines 91-100: the captions that are neither None nor blank
join_captions(caps) == SelectSeq(caps, LAMBDA c : ~ c.absent /\ Strip(c.text) # <<>>)

\* benford_analysis.py lines 72-104: one row of df_clean
CleanRow(r) ==
    [followers |-> r.followers, recent_captions |-> join_captions(r.recent_captions),
     primer_digito |-> primer_digito_valor(r.followers)]

InitAnalysis ==
    /\ apc = "load"
    /\ doc \in Documents
    /\ records_input = <<>>
    /\ frame = Frame(<<>>)
    /\ results = <<>>
    /\ clean = <<>>
    /\ ScrapeIdle
    /\ CapIdle
    /\ ProfIdle
    /\ BatchIdle
    /\ MainIdle

\* analyze_bio.py 259-273 and benford_analysis.py 55-59: both read the file
A_Load ==
    /\ apc = "load"
    /\ records_input' = LoadRecords(doc)
    /\ frame' = cargar_json_instagram(doc)
    /\ apc' = "classify"
    /\ UNCHANGED <<doc, results, clean>>
    /\ UNCHANGED <<scrapeVars, capVars, profVars, batchVars, mainVars>>

\* analyze_bio.py lines 275-291: one pass of the loop; an exception of
\* classify_profile is not caught
A_Classify ==
    /\ apc = "classify"
    /\ IF Len(results) < Len(records_input)
       THEN LET item == records_input[Len(results) + 1]
                out == classify_profile(OrEmptyText(item.bio), item.recent_captions)
            IN  IF out.st = "exc"
                THEN apc' = "crashed" /\ UNCHANGED results
                ELSE results' = Append(results, out.val) /\ UNCHANGED apc
       ELSE apc' = "classified" /\ UNCHANGED results
    /\ UNCHANGED <<doc, records_input, frame, clean>>
    /\ UNCHANGED <<scrapeVars, capVars, profVars, batchVars, mainVars>>

\* benford_analysis.py lines 72-104: df_clean, built by the other program
A_Benford ==
    /\ apc \in {"classified", "crashed"}
    /\ clean' = [i \in DOMAIN frame.rows |-> CleanRow(frame.rows[i])]
    /\ apc' = IF apc = "crashed" THEN "done after a crash" ELSE "done"
    /\ UNCHANGED <<doc, records_input, frame, results>>
    /\ UNCHANGED <<scrapeVars, capVars, profVars, batchVars, mainVars>>

NextAnalysis ==
    \/ A_Load
    \/ A_Classify
    \/ A_Benford

SpecAnalysis == InitAnalysis /\ [][NextAnalysis]_vars

(***************************************************************************)
(* Properties of scrape_followers.                                         *)
(***************************************************************************)

\* C1: the set returned by scrape_followers has at most `limit` members (a set
\* holds each identifier once).  Refuted: the limit is tested only after a whole
\* pass has been inserted.
C1_AtMostLimit ==
    pc = "done" => Cardinality(result) <= limit

OffsetNeverChanged == Cardinality(offsets) <= 1

\* C2 as stated: with an offset that never changes and no error, at most
\* no_change_max scroll commands are issued.  Refuted by a constant non-zero
\* offset: the first read differs from the initial last_scroll_position 0.
C2_AtMostBoundScrolls ==
    (OffsetNeverChanged /\ ~faulted) => scrolls <= no_change_max

\* C2 amended: with an offset that never changes and no error, the loop ends
\* after at most no_change_max + 1 iterations (no_change_max when the offset is
\* 0), each with one scroll-to-bottom command, and at most no_change_max - 1
\* additional scrolls.
C2_TerminatesWithinBound ==
    (OffsetNeverChanged /\ ~faulted) =>
        /\ scrolls <= no_change_max + 1
        /\ passes <= no_change_max + 1
        /\ extra_scrolls <= no_change_max - 1
        /\ (reads >= no_change_max + 1 => pc = "done")
        /\ (offsets = {0} => scrolls <= no_change_max)
        /\ (offsets = {0} /\ reads >= no_change_max => pc = "done")

C2_Witness ==
    /\ pc = "done"
    /\ ~faulted
    /\ offsets = {1}
    /\ scrolls = no_change_max + 1
    /\ Cardinality(result) < limit

\* C8: limit 5 and the references a,b,a,c,d,e,e over two passes: the result is
\* {a,b,c,d,e}, after exactly two passes and the one scroll between them.
C8_Scenario ==
    (pc = "done" /\ ~faulted /\ passes >= 1) =>
        /\ result = {"a", "b", "c", "d", "e"}
        /\ passes = 2
        /\ scrolls = 1

C8_Witness ==
    /\ pc = "done"
    /\ ~faulted
    /\ passes = 2
    /\ limit = 5
    /\ result = {"a", "b", "c", "d", "e"}

\* C10: on return the size of the set is min(limit, number of identifiers
\* parsed in the completed passes).  Refuted by the overshoot of C1.
C10_SizeIsMin ==
    pc = "done" => Cardinality(result) = Min(limit, Cardinality(seen))

(***************************************************************************)
(* Properties of get_recent_captions.                                      *)
(***************************************************************************)

C4_NoOverlayLeft ==
    cpc = "done" => overlays = 0

LastCaption == captions[Len(captions)]

\* C9 as stated: when the structured element is found (and its text read), the
\* entry of the post is that text verbatim.
C9_Verbatim ==
    (cpc = "close" /\ last_el.state = "text") => LastCaption = Value(last_el.text)

\* the text has nothing that normalisation changes
IsClean(t) ==
    /\ t # <<>>
    /\ Strip(t) = t
    /\ \A i \in 1..Len(t) : t[i].c # "\n"
    /\ TextLen(t) <= CaptionMaxLen

\* C9 amended: when the structured element is found and its stripped text is not
\* empty, the entry is made of that text alone, whatever og:description and the
\* alt text hold: verbatim if the text has no surrounding whitespace, no line
\* break and at most 800 characters, and otherwise stripped, with line breaks
\* replaced by spaces and cut to 800 characters plus "...".
C9_ElementFirst ==
    (cpc = "close" /\ last_el.state = "text" /\ Strip(last_el.text) # <<>>) =>
        /\ ~LastCaption.absent
        /\ \A i \in 1..Len(LastCaption.text) : LastCaption.text[i].c \in {"e", " ", "."}
        /\ LastCaption.text[1].c = "e"
        /\ TextLen(LastCaption.text) <= CaptionMaxLen + 3
        /\ (IsClean(last_el.text) => LastCaption.text = last_el.text)
        /\ (TextLen(Strip(last_el.text)) > CaptionMaxLen =>
                /\ LastCaption.text[Len(LastCaption.text)] = Run(".", 3)
                /\ TextLen(LastCaption.text) = CaptionMaxLen + 3)

C9_Witness ==
    /\ cpc = "close"
    /\ last_el.state = "text"
    /\ ~IsClean(last_el.text)
    /\ Strip(last_el.text) # <<>>
    /\ LastCaption.text # last_el.text

(***************************************************************************)
(* Properties of get_profile_info and of its locators.                     *)
(***************************************************************************)
\* C5: get_profile_info never raises to its caller; once a failure happened
\* inside it, it has returned a record that carries the given identifier and
\* whose name, followers, following and bio are all absent.
C5_NeverRaises ==
    /\ ppc # "raised"
    /\ failure # "none" =>
         /\ ppc \in {"done", "idle"}
         /\ info.username = username
         /\ info.name.absent
         /\ info.followers.absent
         /\ info.following.absent
         /\ info.bio.absent
         /\ info.recent_captions = <<>>

\* a call that returned after its navigation raised something else than a timeout
C5_Witness ==
    /\ ppc = "done"
    /\ failure = "Exception"
    /\ info = FailureRecord(username)
    /\ username # ""

Locators ==
    {"followers_spans", "followers_meta", "followers_source", "following_spans",
     "following_meta", "following_source", "name", "bio"}

\* C7: no exception leaves a field locator, whatever DOM call fails inside it,
\* and what each locator returns is one value or absent.
C7_LocatorsNeverRaise ==
    /\ escaped = {}
    /\ dom_raised \subseteq Locators
    /\ follower_count \in [absent : {TRUE}, num : {0}] \cup [absent : {FALSE}, num : Nat]
    /\ following_count \in [absent : {TRUE}, num : {0}] \cup [absent : {FALSE}, num : Nat]
    /\ full_name.absent => full_name.text = <<>>
    /\ bio_text.absent => bio_text.text = <<>>
    /\ dom_raised # {} => failure = "none"

\* a call that returned a record although the first DOM call of every one of
\* the eight locators raised
C7_Witness ==
    /\ ppc = "done"
    /\ failure = "none"
    /\ dom_raised = Locators
    /\ info.followers.absent
    /\ info.following.absent
    /\ info.name.absent
    /\ info.bio.absent

(***************************************************************************)
(* Properties of collect_followers_data.                                   *)
(***************************************************************************)
\* C6: a failure of get_profile_info never ends the batch: the identifiers of
\* the processed list are enriched once each and in order, and the output
\* holds one record per processed identifier, in that order, with the
\* identifier as username.
C6_BatchGoesOn ==
    /\ bpc # "aborted"
    /\ Len(called) <= Len(usernames_list)
    /\ called = SubSeq(usernames_list, 1, Len(called))
    /\ \A i, j \in DOMAIN called : i # j => called[i] # called[j]
    /\ Len(followers_data) = Len(called) - (IF bpc = "call" THEN 1 ELSE 0)
    /\ \A i \in DOMAIN followers_data : followers_data[i].username = called[i]
    /\ bpc = "done" => called = usernames_list

\* a finished batch whose first call failed and whose second call found a
\* followers number
C6_Witness ==
    /\ bpc = "done"
    /\ Len(followers_data) = 2
    /\ 1 \in failed_calls
    /\ followers_data[1] = FailureRecord(usernames_list[1])
    /\ 2 \notin failed_calls
    /\ ~ followers_data[2].followers.absent

(***************************************************************************)
(* Properties of the strategy chains of get_profile_info.                  *)
(***************************************************************************)
FollowersOrder == <<"followers_spans", "followers_meta", "followers_source">>
FollowingOrder == <<"following_spans", "following_meta", "following_source">>
TriedOf(order) == SelectSeq(tried, LAMBDA t : \E i \in DOMAIN order : t.name = order[i])
AfterFollowers ==
    {"following_spans", "following_meta", "following_source", "name", "bio", "captions",
     "in_captions", "return", "done"}
AfterFollowing == {"name", "bio", "captions", "in_captions", "return", "done"}

\* the strategies of one count were invoked in the fixed order, each after
\* absent answers only, and the count is what the last one returned
ChainInOrder(order, value, finished) ==
    LET ts == TriedOf(order)
    IN  /\ Len(ts) <= Len(order)
        /\ \A i \in DOMAIN ts : ts[i].name = order[i]
        /\ \A i \in DOMAIN ts : i < Len(ts) => ts[i].val.absent
        /\ value = IF ts = <<>> THEN NoCount ELSE ts[Len(ts)].val
        /\ finished =>
             /\ ts # <<>>
             /\ value.absent <=> (Len(ts) = Len(order) /\ \A i \in DOMAIN ts : ts[i].val.absent)
             /\ ~ value.absent => \A i \in DOMAIN ts : ~ ts[i].val.absent => i = Len(ts)

\* C11: for the follower count and the following count the strategies are
\* tried in the order spans, meta, page source; a later one is invoked only
\* after every earlier one returned absent; the count is the value of the
\* first strategy that returned one, and is absent exactly when all three
\* returned absent.
C11_FirstStrategyWins ==
    /\ ChainInOrder(FollowersOrder, follower_count,
                    ppc \in AfterFollowers /\ failure = "none")
    /\ ChainInOrder(FollowingOrder, following_count,
                    ppc \in AfterFollowing /\ failure = "none")
    /\ ppc = "done" /\ failure = "none" =>
         info.followers = follower_count /\ info.following = following_count

\* a returned record whose follower count came from the page source after
\* two absent answers, and whose following count came from the meta tag
C11_Witness ==
    /\ ppc = "done"
    /\ failure = "none"
    /\ Len(TriedOf(FollowersOrder)) = 3
    /\ ~ info.followers.absent
    /\ Len(TriedOf(FollowingOrder)) = 2
    /\ ~ info.following.absent

(***************************************************************************)
(* Properties of the early exits of scrape_followers.                      *)
(***************************************************************************)
EarlyExits == {"profile unreachable", "no dialog", "no container"}

\* C12: when the header does not appear within the wait, scrape_followers
\* returns the empty set without opening the dialog, extracting an identifier
\* or scrolling; it returns the empty set as well when the dialog cannot be
\* opened and when no scrollable region is found.
C12_EarlyExitsEmpty ==
    /\ exit \in EarlyExits =>
         /\ pc = "done"
         /\ result = {}
         /\ followers = {}
         /\ seen = {}
         /\ passes = 0
         /\ scrolls = 0
         /\ extra_scrolls = 0
         /\ reads = 0
         /\ modal = NoHandle
    /\ exit \in {"profile unreachable", "no dialog"} => ~ dialog
    /\ pc = "navigate" => ~ dialog /\ passes = 0 /\ scrolls = 0
    /\ passes > 0 \/ scrolls > 0 => dialog /\ modal # NoHandle

\* the call has returned because the header did not appear
C12_Witness ==
    /\ pc = "done"
    /\ exit = "profile unreachable"
    /\ result = {}
    /\ ~ dialog

(***************************************************************************)
(* Properties of the truncation and of the summary of                      *)
(* collect_followers_data.                                                 *)
(***************************************************************************)
\* C13: for every bound max_profiles >= 0 and every set of identifiers, the
\* number of get_profile_info calls and the length of the output are both
\* min(max_profiles, size of the set).
C13_TruncatesToCap ==
    bpc = "done" /\ max_profiles # NoCap =>
        /\ Len(called) = Min(max_profiles, Cardinality(usernames_set))
        /\ Len(followers_data) = Min(max_profiles, Cardinality(usernames_set))

\* C14: in the summary a record is successful exactly when its followers
\* field is not absent (a count of 0 is present), the failed count is the
\* number of records whose followers field is absent, and the two add up to
\* the number of processed identifiers.
C14_SummaryCounts ==
    bpc = "done" =>
        /\ successful = Cardinality({i \in DOMAIN followers_data :
                                        ~ followers_data[i].followers.absent})
        /\ failed = Cardinality({i \in DOMAIN followers_data :
                                    followers_data[i].followers.absent})
        /\ successful + failed = Len(usernames_list)
        /\ Len(followers_data) = Len(usernames_list)

\* a summary of two records: one with a followers count of 0, counted as
\* successful, and one without a count, counted as failed
C14_Witness ==
    /\ bpc = "done"
    /\ Len(followers_data) = 2
    /\ successful = 1
    /\ failed = 1
    /\ \E i \in DOMAIN followers_data : followers_data[i].followers = Count(0)

(***************************************************************************)
(* Properties of main.                                                     *)
(***************************************************************************)
\* C15: when the run is interrupted or aborts between two profiles of the
\* enrichment, the records collected until then are persisted before the
\* program ends.
C15_CollectedIsPersisted ==
    mpc = "end" /\ collected # <<>> =>
        /\ json_file.saved
        /\ json_file.data = collected

(***************************************************************************)
(* Properties of the downstream analyses.                                  *)
(***************************************************************************)
\* C16: for every record whose bio is absent or whose captions hold absent
\* entries, classify_profile as analyze_bio.main calls it and the caption and
\* first-digit processing of analizar_benford complete and return a result.
C16_AbsentTolerated ==
    /\ apc \notin {"crashed", "done after a crash"}
    /\ apc = "classified" => Len(results) = Len(records_input)
    /\ apc = "done" => Len(clean) = Len(frame.rows)

\* C17: the records read from the bare list L and from the envelope
\* {"data": L} are the same, in analyze_bio.main and in cargar_json_instagram.
C17_SameRecords ==
    LET L == doc.items
    IN  /\ LoadRecords(JsonList(L)) = LoadRecords(JsonObject("data", L))
        /\ cargar_json_instagram(JsonList(L)) = cargar_json_instagram(JsonObject("data", L))
        /\ apc # "load" /\ (doc.kind = "list" \/ doc.key = "data") =>
             /\ records_input = L
             /\ frame = Frame(L)

\* an envelope with a record has been read by both loaders
C17_Witness ==
    /\ apc = "classify"
    /\ doc.kind = "dict"
    /\ doc.key = "data"
    /\ Len(doc.items) > 0
    /\ records_input = doc.items
    /\ frame.rows = doc.items

(***************************************************************************)
(* Properties of the stagnation handling of scrape_followers.              *)
(***************************************************************************)
\* C18: the forced scroll is issued when the stagnation counter reaches its
\* bound, and not on an earlier stagnant iteration.
C18_ForcedScrollAtBound ==
    [][pc = "read" /\ extra_scrolls' # extra_scrolls => no_change_count' >= no_change_max]_vars

\* C18, as the code has it: a forced scroll is attempted on every stagnant
\* iteration that leaves the counter below its bound, and on no other; the
\* iteration on which the counter reaches the bound ends the loop as
\* exhausted without a forced scroll.
C18_ForcedScrollBelowBound ==
    [][pc = "read" =>
          /\ extra_scrolls' = extra_scrolls + 1
                <=> (no_change_count' = no_change_count + 1 /\ no_change_count' < no_change_max)
          /\ extra_scrolls' # extra_scrolls + 1 => extra_scrolls' = extra_scrolls
          /\ exit' = "exhausted" <=> (no_change_count' = no_change_count + 1
                                        /\ no_change_count' = no_change_max)
          /\ exit' = "exhausted" => pc' = "done" /\ result' = followers]_vars

\* the loop ended as exhausted after a forced scroll on each of the stagnant
\* iterations before the last
C18_Witness ==
    /\ pc = "done"
    /\ exit = "exhausted"
    /\ no_change_count = no_change_max
    /\ extra_scrolls = no_change_max - 1

(***************************************************************************)
(* Properties of the error recovery of scrape_followers.                   *)
(***************************************************************************)
\* C19: on every error that reaches the handler of the loop the container
\* is re-acquired once: the loop ends as exhausted when that fails and goes
\* on, the collected identifiers intact, when it succeeds.
C19_ReacquireOnEveryError ==
    [][pc = "handler" =>
          \/ pc' = "loop" /\ modal' = Structural /\ followers' = followers
          \/ pc' = "done" /\ exit' = "container lost" /\ result' = followers]_vars

\* C19, as the code has it: an error below the bound of consecutive errors
\* is answered by one re-acquisition of the container, whose failure ends
\* the loop and whose success lets it go on with the collected identifiers
\* intact; the error that reaches the bound ends the loop with no
\* re-acquisition; an offset that cannot be read, even from a re-acquired
\* container, ends the loop as well.
C19_ReacquireBelowBound ==
    [][/\ pc = "handler" =>
            /\ consecutive_errors' = consecutive_errors + 1
            /\ \/ /\ consecutive_errors' >= max_consecutive_errors
                  /\ pc' = "done"
                  /\ exit' = "too many errors"
                  /\ modal' = modal
                  /\ result' = followers
               \/ /\ consecutive_errors' < max_consecutive_errors
                  /\ pc' = "done"
                  /\ exit' = "container lost"
                  /\ modal' = modal
                  /\ result' = followers
               \/ /\ consecutive_errors' < max_consecutive_errors
                  /\ pc' = "loop"
                  /\ modal' = Structural
       /\ pc = "read" /\ pc' = "done" /\ exit' = "offset unreadable" => result' = followers
       /\ pc \in {"scroll", "read", "handler"} => followers' = followers]_vars

\* the loop ended on its third consecutive error, after a successful
\* re-acquisition, with identifiers collected
C19_Witness ==
    /\ pc = "done"
    /\ exit = "too many errors"
    /\ consecutive_errors = max_consecutive_errors
    /\ modal = Structural
    /\ result # {}

(***************************************************************************)
(* Properties of an extraction pass of scrape_followers.                   *)
(***************************************************************************)
\* the links of the next pass of a scripted dialog
NextLinks == feed[Min(passes + 1, Len(feed))]
\* the identifiers of the profile links that can be read
Readable(links) ==
    {links[i].href.user : i \in {j \in DOMAIN links :
                                    ~ links[j].stale /\ links[j].href.kind = "profile"}}

\* C20: a link that raises while it is read is skipped alone: the pass
\* inserts the identifier of every other profile link, the loop goes on to
\* the limit test, and the error and stagnation counters do not change.
C20_StaleLinkSkipped ==
    [][pc = "extract" /\ passes' = passes + 1 =>
          /\ followers' = followers \cup Readable(NextLinks)
          /\ consecutive_errors' = consecutive_errors
          /\ no_change_count' = no_change_count
          /\ faulted' = faulted
          /\ pc' = IF Cardinality(followers') >= limit THEN "done" ELSE "scroll"
          /\ pc' = "done" => exit' = "limit" /\ result' = followers']_vars

\* a pass whose first link was stale and whose second was inserted has
\* gone on to the scroll
C20_Witness ==
    /\ pc = "scroll"
    /\ passes = 1
    /\ Len(feed[1]) = 2
    /\ feed[1][1].stale
    /\ ~ feed[1][2].stale
    /\ feed[1][2].href.kind = "profile"
    /\ followers = {feed[1][2].href.user}
    /\ consecutive_errors = 0
    /\ no_change_count = 0

(***************************************************************************)
(* Properties of the scroll state of scrape_followers.                     *)
(***************************************************************************)
\* C21: the scroll state starts at offset 0 and count 0; a completed read
\* of an offset that differs from the last one resets the stagnation counter
\* and records the offset read, one of the same offset adds exactly one to
\* the counter; no other step touches the pair, and the counter never
\* exceeds no_change_max.
C21_ScrollState ==
    /\ [](reads = 0 => last_scroll_position = 0 /\ no_change_count = 0)
    /\ [](no_change_count <= no_change_max)
    /\ [][IF pc = "read" /\ reads' = reads + 1
          THEN /\ offsets' = offsets \cup {last_scroll_position'}
               /\ IF last_scroll_position' # last_scroll_position
                  THEN no_change_count' = 0
                  ELSE no_change_count' = no_change_count + 1
          ELSE UNCHANGED <<last_scroll_position, no_change_count>>]_vars

\* a stagnant read was followed by a read of a new offset
C21_Witness ==
    /\ reads = 2
    /\ extra_scrolls = 1
    /\ last_scroll_position = 1
    /\ no_change_count = 0
    /\ offsets = {0, 1}

(***************************************************************************)
(* Properties of the handles used by scrape_followers.                     *)
(***************************************************************************)
\* C22: no container handle is kept across a scroll: the handle a scroll
\* command of the loop is issued on was located after the scroll command
\* before it.
C22_NoHandleAcrossScroll ==
    [][pc = "scroll" /\ scrolls' = scrolls + 1 => queried_at' = ScrollCommands]_vars

\* C23: every scroll command is issued on a region selected by measurement
\* (the first candidate whose scrollHeight exceeds its clientHeight by more
\* than ScrollMargin), never on one located by its structure alone.
C23_ScrollsMeasuredRegion ==
    [][/\ scrolls' = scrolls + 1 => modal'.how = "measured"
       /\ extra_scrolls' = extra_scrolls + 1 => modal'.how = "measured"]_vars

(***************************************************************************)
(* Properties of the overlays of get_recent_captions.                      *)
(***************************************************************************)
\* the close attempt of the finally block follows every path through a post
\* and precedes the next post and the return
CloseAttemptOnEveryPath ==
    [][/\ cpc \in {"open", "extract"} => cpc' \in {"extract", "close"}
       /\ cpc \in {"open", "extract", "close"} /\ cpc' \in {"open", "done"} => cpc = "close"]_vars

\* C24: after each post, on every path, a close attempt is made before the
\* next overlay is opened and before returning, so that at most one overlay
\* is open at any time.
C24_OneOverlayAtATime ==
    /\ CloseAttemptOnEveryPath
    /\ [](overlays <= 1)

(***************************************************************************)
(* Properties of the record of get_profile_info.                           *)
(***************************************************************************)
\* C25: every record returned, the record of a failed profile included,
\* has as many caption entries as were requested.
C25_CaptionsAsRequested ==
    ppc = "done" => Len(info.recent_captions) = posts_to_extract

\* the positions of get_profile_info at which each field is looked up
FollowersSteps == {"followers_spans", "followers_meta", "followers_source"}
FollowingSteps == {"following_spans", "following_meta", "following_source"}
AfterHeader ==
    FollowersSteps \cup FollowingSteps \cup {"name", "bio", "captions", "in_captions", "return"}

\* C26: once the header was found every field is looked up, whatever the
\* other lookups raised or missed: each lookup hands over to the next one
\* and writes its own field only, the captions are collected when asked
\* for, and the record returned holds what each field's own lookups gave.
C26_FieldsIndependent ==
    [][/\ ppc \in AfterHeader => failure' = "none" /\ ppc' \in AfterHeader \cup {"done"}
       /\ ppc \in FollowersSteps =>
            /\ ppc' \in FollowersSteps \cup {"following_spans"}
            /\ UNCHANGED <<following_count, full_name, bio_text>>
       /\ ppc \in FollowingSteps =>
            /\ ppc' \in FollowingSteps \cup {"name"}
            /\ UNCHANGED <<follower_count, full_name, bio_text>>
       /\ ppc = "name" =>
            /\ ppc' = "bio"
            /\ UNCHANGED <<follower_count, following_count, bio_text>>
       /\ ppc = "bio" =>
            /\ ppc' = "captions"
            /\ UNCHANGED <<follower_count, following_count, full_name>>
       /\ ppc = "captions" =>
            /\ ppc' = IF posts_to_extract > 0 THEN "in_captions" ELSE "return"
            /\ posts_to_extract > 0 => cpc' = "collect" /\ max_posts' = posts_to_extract
            /\ UNCHANGED <<follower_count, following_count, full_name, bio_text>>
       /\ ppc = "in_captions" =>
            /\ UNCHANGED <<follower_count, following_count, full_name, bio_text>>
            /\ ppc' # ppc => ppc' = "done" /\ cpc = "done"
       /\ ppc \in {"return", "in_captions"} /\ ppc' = "done" =>
            info' = Record(username, full_name, follower_count, following_count,
                           bio_text, captions)]_vars

\* a record with the following count and the bio found and a caption entry,
\* on a page where the first call of the first followers locator raised and
\* neither the followers count nor the name was found
C26_Witness ==
    /\ ppc = "done"
    /\ failure = "none"
    /\ "followers_spans" \in dom_raised
    /\ info.followers.absent
    /\ ~ info.following.absent
    /\ info.name.absent
    /\ ~ info.bio.absent
    /\ posts_to_extract = 1
    /\ Len(info.recent_captions) = 1

(***************************************************************************)
(* Properties of the working set of scrape_followers.                      *)
(***************************************************************************)
\* C27: the working set only grows: no step of the call (extraction pass,
\* scroll, stagnation, error recovery) removes an identifier, and the set
\* returned is the working set at the exit of the loop.
C27_WorkingSetGrows ==
    [][/\ followers \subseteq followers'
       /\ pc # "done" /\ pc' = "done" => result' = followers']_vars

\* a call that made two passes, went through a forced scroll and an error
\* recovery, ended on the error bound and returned what it had collected
C27_Witness ==
    /\ pc = "done"
    /\ passes >= 2
    /\ extra_scrolls >= 1
    /\ faulted
    /\ exit = "too many errors"
    /\ followers # {}
    /\ result = followers

\* C28: the error bound counts failing iterations in a row: an iteration
\* that runs to its end without an error (its offset read and compared)
\* restarts the count of consecutive errors.
C28_CleanIterationRestartsCount ==
    [][pc = "read" /\ pc' = "loop" => consecutive_errors' = 0]_vars

\* C29: a scroll command is issued only while the working set holds fewer
\* than limit identifiers: the pass that brings it to limit or more ends the
\* call, and after that no links are queried, no scroll is commanded and no
\* offset is read.
C29_NoScrollPastLimit ==
    /\ [](pc \in {"scroll", "read"} => Cardinality(followers) < limit)
    /\ [][/\ ScrollCommands' # ScrollCommands => Cardinality(followers) < limit
          /\ pc = "extract" /\ passes' = passes + 1 /\ Cardinality(followers') >= limit =>
                pc' = "done" /\ exit' = "limit" /\ result' = followers'
          /\ pc = "done" => UNCHANGED <<passes, scrolls, extra_scrolls, reads>>]_vars

\* a call that scrolled while it was short of the limit and returned on the
\* pass that reached it
C29_Witness ==
    /\ pc = "done"
    /\ exit = "limit"
    /\ limit = 2
    /\ passes = 2
    /\ scrolls = 1
    /\ reads = 1
    /\ Cardinality(result) >= limit

(***************************************************************************)
(* Properties of the list returned by get_recent_captions.                 *)
(***************************************************************************)
\* C30: the list gets one entry per post processed, in the order of the
\* grid, and at most max_posts posts are processed: on return its length is
\* min(max_posts, posts found in the grid), which is at most max_posts.
C30_LengthIsMin ==
    /\ cpc \in {"open", "extract"} => Len(captions) = post_index - 1
    /\ cpc = "close" => Len(captions) = post_index
    /\ cpc = "done" =>
         /\ Len(captions) = post_links
         /\ Len(captions) <= max_posts
         /\ ~ grid_failed => Len(captions) = Min(max_posts, CountPosts(anchors))

(***************************************************************************)
(* Properties of the phases of main.                                       *)
(***************************************************************************)
\* C31: an empty result of scrape_followers ends the run with nothing saved,
\* no profile enriched and no analysis; otherwise the follower list is
\* saved before the enrichment starts and the enriched records are saved
\* before the Benford analysis runs.
C31_PhasesInOrder ==
    /\ [][mpc = "scrape" /\ mpc' # mpc =>
            /\ main_followers' = result
            /\ mpc' = IF result = {} THEN "finally" ELSE "save_txt"]_vars
    /\ [](main_followers = {} =>
            /\ ~ txt_file.saved
            /\ ~ json_file.saved
            /\ ~ analysed
            /\ bpc = "idle"
            /\ mpc \notin {"save_txt", "collect", "collecting", "benford"})
    /\ [](mpc \in {"collect", "collecting", "benford"} \/ bpc # "idle" =>
            txt_file.saved /\ txt_file.content = main_followers)
    /\ [](mpc = "benford" \/ analysed => json_file.saved)

\* a run that saved the list, enriched a profile, saved the records and
\* analysed them
C31_Witness ==
    /\ mpc = "end"
    /\ main_followers # {}
    /\ txt_file.saved
    /\ json_file.saved
    /\ Len(json_file.data) = 1
    /\ analysed

\* C32: whatever integer the operator enters, the caption count main hands
\* to the enrichment is in 0..5 (what was entered, brought up to 0 or down
\* to 5); with a count of 0 no post overlay is opened and every record has
\* an empty list of captions.
C32_CaptionCountClamped ==
    /\ main_posts \in 0..5
    /\ mpc \in {"scrape", "save_txt", "collect", "collecting", "benford"} =>
         main_posts = IF entered < 0 THEN 0 ELSE IF entered > 5 THEN 5 ELSE entered
    /\ bpc # "idle" => posts_to_extract = main_posts
    /\ mpc = "collecting" /\ main_posts = 0 =>
         /\ cpc = "idle"
         /\ overlays = 0
         /\ \A i \in DOMAIN followers_data : followers_data[i].recent_captions = <<>>
    /\ main_posts = 0 =>
         \A i \in DOMAIN json_file.data : json_file.data[i].recent_captions = <<>>

\* a run in which -1 was entered: the profile was enriched with a count of
\* 0, its record found its followers and has no captions
C32_Witness ==
    /\ mpc = "end"
    /\ entered = -1
    /\ main_posts = 0
    /\ json_file.saved
    /\ Len(json_file.data) = 1
    /\ ~ json_file.data[1].followers.absent
    /\ json_file.data[1].recent_captions = <<>>
    /\ overlays = 0

C34_AtMostLimitRecords ==
    /\ mpc = "collecting" =>
         /\ max_profiles = main_limit
         /\ bpc # "start" =>
              Len(usernames_list) = Min(main_limit, Cardinality(main_followers))
         /\ Len(followers_data) <= main_limit
    /\ Len(collected) <= main_limit
    /\ json_file.saved =>
         Len(json_file.data) = Min(main_limit, Cardinality(main_followers))
    /\ txt_file.saved => txt_file.content = main_followers

\* a run with limit 1 in which scrape_followers returned two identifiers:
\* both are in the text list, one record is saved
C34_Witness ==
    /\ mpc = "end"
    /\ main_limit = 1
    /\ Cardinality(main_followers) = 2
    /\ txt_file.saved
    /\ Cardinality(txt_file.content) = 2
    /\ json_file.saved
    /\ Len(json_file.data) = 1

\* C35: once the browser is started it is closed exactly once on every way
\* out of main: failed login, empty follower set, normal completion,
\* operator interrupt and unexpected exception.
C35_QuitsExactlyOnce ==
    /\ quits <= 1
    /\ mpc = "end" => quits = 1

====
